---- MODULE Spec2Model ----
(***************************************************************************)
(* Model of the AutoAnalysis pipeline of auto_bioinformatics               *)
(* (src/src/analysis.py) and of the helpers it calls.                      *)
(*                                                                         *)
(* Text is modelled as sequences of one-character strings, so that the     *)
(* pattern matching of pandas' str.contains can be computed.  Numbers are  *)
(* integers; NaN is the reserved value NaN.                                *)
(***************************************************************************)
EXTENDS Integers, Sequences, FiniteSets, TLC

(***************************************************************************)
(* Bounds of the model.                                                    *)
(***************************************************************************)
\* largest number of configured groups
MaxGroups == 3
\* number of rows (features) of the expression matrix
NumRows == 2
\* longest column list handed to the group resolver on its own
MaxCols == 3

(***************************************************************************)
(* Generic helpers.                                                        *)
(***************************************************************************)
Range(s) == {s[i] : i \in 1..Len(s)}

Abs(x) == IF x < 0 THEN -x ELSE x

RECURSIVE SumSeq(_)
SumSeq(s) == IF s = <<>> THEN 0 ELSE Head(s) + SumSeq(Tail(s))

RECURSIVE SeqsUpTo(_, _)
SeqsUpTo(S, n) ==
    IF n = 0 THEN {<<>>}
    ELSE LET shorter == SeqsUpTo(S, n - 1)
         IN  shorter \cup {Append(s, x) : s \in {t \in shorter : Len(t) = n - 1}, x \in S}

(***************************************************************************)
(* GroupResolver: AutoAnalysis._get_group_cols.                            *)
(*                                                                         *)
(* pandas' Series.str.contains(pat) has regex=True by default: pat is a    *)
(* regular expression searched in each label (re.search).  The pattern     *)
(* language modelled here is literals, the wildcard "." and the top-level  *)
(* alternation "|", which is what "|".join(tokens) builds.                 *)
(***************************************************************************)
\* "|".join(tokens)
RECURSIVE JoinBar(_)
JoinBar(tokens) ==
    IF tokens = <<>> THEN <<>>
    ELSE IF Len(tokens) = 1 THEN tokens[1]
    ELSE tokens[1] \o <<"|">> \o JoinBar(Tail(tokens))

\* the alternatives of a pattern: the pattern cut at every "|"
RECURSIVE Alternatives(_)
Alternatives(pat) ==
    IF \A i \in 1..Len(pat) : pat[i] # "|" THEN <<pat>>
    ELSE LET k == CHOOSE i \in 1..Len(pat) :
                      pat[i] = "|" /\ \A j \in 1..(i - 1) : pat[j] # "|"
         IN  <<SubSeq(pat, 1, k - 1)>> \o Alternatives(SubSeq(pat, k + 1, Len(pat)))

\* one alternative matches the label at position i ("." matches any character)
MatchAt(alt, label, i) ==
    /\ i + Len(alt) - 1 <= Len(label)
    /\ \A j \in 1..Len(alt) : alt[j] = "." \/ alt[j] = label[i + j - 1]

\* re.search(pat, label) is not None
RegexSearch(pat, label) ==
    LET alts == Alternatives(pat)
    IN  \E k \in 1..Len(alts) : \E i \in 1..(Len(label) + 1) : MatchAt(alts[k], label, i)

\* Series.str.contains(pat) on one label
StrContainsLiteral(label, pat) ==
    \E i \in 1..(Len(label) + 1) :
        /\ i + Len(pat) - 1 <= Len(label)
        /\ \A j \in 1..Len(pat) : pat[j] = label[i + j - 1]

StrContains(label, pat) == RegexSearch(pat, label)

\* group_name is [isStr |-> TRUE, v |-> token] or [isStr |-> FALSE, v |-> list of tokens]
GroupPattern(group_name) ==
    IF group_name.isStr THEN group_name.v ELSE JoinBar(group_name.v)

\* the boolean mask keeps the matching labels in column order
_get_group_cols(columns, group_name) ==
    SelectSeq(columns, LAMBDA c : StrContains(c, GroupPattern(group_name)))

StrArg(token) == [isStr |-> TRUE, v |-> token]
ListArg(tokens) == [isStr |-> FALSE, v |-> tokens]

(***************************************************************************)
(* The expression matrix.                                                  *)
(*                                                                         *)
(* data[r][c] is the cell of row r in column c (c indexes columns).  The   *)
(* cell of the feature-identifier column is a text; every other cell is a  *)
(* number or NaN.  Numbers are fixed-point values with resolution 1.       *)
(***************************************************************************)
NaN == -1000000
\* a missing feature identifier
NaNStr == <<"nan">>

IsNaN(x) == x = NaN

GeneNameCol == <<"G", "e", "n", "e">>

ColIdx(columns, label) == CHOOSE i \in 1..Len(columns) : columns[i] = label

\* the positions of a list of labels (DataFrame.loc[:, labels])
ColIdxs(columns, labels) == [k \in 1..Len(labels) |-> ColIdx(columns, labels[k])]

Rows(data) == DOMAIN data

\* the frame is rebuilt from the block: the other columns after the first
\* lose their values
AssignColsOnly(data, cs, block) ==
    [r \in DOMAIN data |->
        [c \in DOMAIN data[r] |->
            IF \E k \in 1..Len(cs) : cs[k] = c
            THEN block[r][CHOOSE k \in 1..Len(cs) : cs[k] = c]
            ELSE IF c = 1 THEN data[r][c] ELSE NaN]]

\* data with the cells of the columns cs replaced by block[r][k], k-th of cs
AssignCols(data, cs, block) ==
    [r \in DOMAIN data |->
        [c \in DOMAIN data[r] |->
            IF \E k \in 1..Len(cs) : cs[k] = c
            THEN block[r][CHOOSE k \in 1..Len(cs) : cs[k] = c]
            ELSE data[r][c]]]

\* data.loc[:, cs]
Block(data, cs) == [r \in DOMAIN data |-> [k \in 1..Len(cs) |-> data[r][cs[k]]]]

(***************************************************************************)
(* Scaler: Log2Scaler.transform = np.log2(data).replace(-inf, 0).          *)
(* log2 is exact on the powers of two and rounded down elsewhere.          *)
(***************************************************************************)
RECURSIVE FloorLog2(_)
FloorLog2(v) == IF v <= 1 THEN 0 ELSE 1 + FloorLog2(v \div 2)

Log2Cell(v) ==
    IF IsNaN(v) THEN NaN
    ELSE IF v > 0 THEN FloorLog2(v)
    ELSE IF v = 0 THEN 0
    ELSE NaN

Log2Scaler_fit_transform(block) ==
    [r \in DOMAIN block |-> [k \in DOMAIN block[r] |-> Log2Cell(block[r][k])]]

(***************************************************************************)
(* Imputer: KNN_Imputer.fit / transform.                                   *)
(***************************************************************************)
\* KNNImputer() averages the n_neighbors = 5 nearest donors of a column; the
\* matrices of this model have fewer rows, so every donor is a neighbour.
\* sample_threshold = 0.5, as the fraction SampleThresholdNum / SampleThresholdDen
SampleThresholdNum == 1
SampleThresholdDen == 2

\* data.replace(0, np.nan)
ZeroToNaN(block) ==
    [r \in DOMAIN block |-> [k \in DOMAIN block[r] |->
        IF block[r][k] = 0 THEN NaN ELSE block[r][k]]]

NonMissing(row) == Cardinality({k \in DOMAIN row : ~IsNaN(row[k])})

\* a row with exactly thresh non-missing cells is dropped too
KeptRowsStrict(clean, ncols) ==
    {r \in DOMAIN clean :
        Cardinality({k \in DOMAIN clean[r] : clean[r][k] # NaN}) * SampleThresholdDen
            > SampleThresholdNum * ncols}

\* dropna(thresh = sample_threshold * ncols): the rows that survive
KeptRows(clean, ncols) ==
    {r \in DOMAIN clean :
        NonMissing(clean[r]) * SampleThresholdDen >= SampleThresholdNum * ncols}

\* rows of the fitted data that have column k observed
Donors(clean, kept, k) == {r \in kept : ~IsNaN(clean[r][k])}

RECURSIVE SumOver(_, _, _)
SumOver(clean, rs, k) ==
    IF rs = {} THEN 0
    ELSE LET r == CHOOSE x \in rs : TRUE
         IN  clean[r][k] + SumOver(clean, rs \ {r}, k)

\* a result of a stage: a value or a raised exception
Ok(v) == [ok |-> TRUE, v |-> v, err |-> "none"]
Raise(e) == [ok |-> FALSE, v |-> <<>>, err |-> e]

\* KNN_Imputer.fit_transform: fit raises on an empty fit matrix; transform
\* raises when KNNImputer drops a column that was all-missing in fit, since
\* the frame is rebuilt with the original column labels
KNN_Imputer_fit_transform(block, ncols) ==
    LET clean == ZeroToNaN(block)
        kept  == KeptRows(clean, ncols)
    IN  IF ncols = 0 \/ kept = {} THEN Raise("ValueError")
        ELSE IF \E k \in 1..ncols : Donors(clean, kept, k) = {} THEN Raise("ValueError")
        ELSE Ok([r \in DOMAIN block |-> [k \in 1..ncols |->
                IF r \notin kept THEN NaN
                ELSE IF ~IsNaN(clean[r][k]) THEN clean[r][k]
                ELSE LET d == Donors(clean, kept, k)
                     IN  SumOver(clean, d, k) \div Cardinality(d)]])

(***************************************************************************)
(* Normaliser: PowerScaler (sklearn PowerTransformer): per column, an      *)
(* order-preserving map to zero mean; NaN is ignored in fit and kept in    *)
(* transform.  Modelled by the centred rank of the cell in its column,     *)
(* which is the standardised value itself for a column of two rows.        *)
(***************************************************************************)
CentredRank(block, r, k) ==
    IF IsNaN(block[r][k]) THEN NaN
    ELSE Cardinality({q \in DOMAIN block : ~IsNaN(block[q][k]) /\ block[q][k] < block[r][k]})
       - Cardinality({q \in DOMAIN block : ~IsNaN(block[q][k]) /\ block[q][k] > block[r][k]})

PowerScaler_fit_transform(block, ncols) ==
    IF ncols = 0 THEN Raise("ValueError")
    ELSE Ok([r \in DOMAIN block |-> [k \in 1..ncols |-> CentredRank(block, r, k)]])

(***************************************************************************)
(* DifferentialExpressionEngine: AutoAnalysis._run_single_de_anaylsis.     *)
(*                                                                         *)
(* Means and fold changes are kept exactly, in units of 1 / FCScale, where *)
(* FCScale is a common multiple of every possible column count.  p-values  *)
(* are in thousandths.                                                     *)
(***************************************************************************)
RECURSIVE Gcd(_, _)
Gcd(a, b) == IF b = 0 THEN a ELSE Gcd(b, a % b)

RECURSIVE LcmUpTo(_)
LcmUpTo(n) == IF n <= 1 THEN 1 ELSE LET l == LcmUpTo(n - 1) IN (l * n) \div Gcd(l, n)

FCScale(columns) == LcmUpTo(Len(columns))

\* the observed (non-NaN) cells of row r in the columns cs, as a sequence
Observed(data, r, cs) ==
    SelectSeq([k \in 1..Len(cs) |-> data[r][cs[k]]], LAMBDA v : ~IsNaN(v))

\* DataFrame.mean(axis=1) skips NaN and is NaN for a row without observed cells
RowMean(data, r, cs, scale) ==
    LET obs == Observed(data, r, cs)
    IN  IF obs = <<>> THEN NaN ELSE (scale \div Len(obs)) * SumSeq(obs)

FoldChangeSwapped(data, r, cs1, cs2, scale) ==
    LET m1 == RowMean(data, r, cs1, scale)
        m2 == RowMean(data, r, cs2, scale)
    IN  IF IsNaN(m1) \/ IsNaN(m2) THEN NaN ELSE m1 - m2

\* group_2_mean - group_1_mean
FoldChange(data, r, cs1, cs2, scale) ==
    LET m1 == RowMean(data, r, cs1, scale)
        m2 == RowMean(data, r, cs2, scale)
    IN  IF IsNaN(m1) \/ IsNaN(m2) THEN NaN ELSE m2 - m1

Squares(s) == [k \in 1..Len(s) |-> s[k] * s[k]]

\* 100 times the squared critical values of Student's t (two-sided 5% and
\* 1%), by degrees of freedom 1..8; beyond, those of the normal limit
TCritSq05 == <<16145, 1852, 1013, 771, 661, 599, 559, 532>>
TCritSq01 == <<405220, 9850, 3412, 2120, 1626, 1375, 1225, 1126>>
CritSq05(df) == IF df <= Len(TCritSq05) THEN TCritSq05[df] ELSE 384
CritSq01(df) == IF df <= Len(TCritSq01) THEN TCritSq01[df] ELSE 663

\* scipy.stats.ttest_ind(a, b, axis=1)[1] on one row (equal variances, NaN
\* propagated).  With x the n1 cells of group 1 and y the n2 cells of group 2,
\*   t^2 = A^2 * df / (W * (n1 + n2)),  A = n1*sum(y) - n2*sum(x),
\*   W = n2*(n1*sum(x^2) - sum(x)^2) + n1*(n2*sum(y^2) - sum(y)^2).
\* The p-value is reported by the band it falls in: 0 (t infinite), 5
\* (p < 0.01), 30 (0.01 <= p < 0.05), 500 (p >= 0.05), 1000 (t = 0).
TTestP(data, r, cs1, cs2) ==
    LET x  == Observed(data, r, cs1)
        y  == Observed(data, r, cs2)
        n1 == Len(cs1)
        n2 == Len(cs2)
        df == n1 + n2 - 2
        A  == n1 * SumSeq(y) - n2 * SumSeq(x)
        W  == n2 * (n1 * SumSeq(Squares(x)) - SumSeq(x) * SumSeq(x))
            + n1 * (n2 * SumSeq(Squares(y)) - SumSeq(y) * SumSeq(y))
    IN  IF Len(x) < n1 \/ Len(y) < n2 THEN NaN
        ELSE IF n1 = 0 \/ n2 = 0 \/ df = 0 THEN NaN
        ELSE IF W = 0 THEN (IF A = 0 THEN NaN ELSE 0)
        ELSE IF A = 0 THEN 1000
        ELSE IF 100 * A * A * df > CritSq01(df) * W * (n1 + n2) THEN 5
        ELSE IF 100 * A * A * df > CritSq05(df) * W * (n1 + n2) THEN 30
        ELSE 500

\* one row of grouped_data with its two computed columns
DERow(columns, data, r, cs1, cs2) ==
    [row  |-> r,
     gene |-> data[r][ColIdx(columns, GeneNameCol)],
     cells |-> [k \in 1..Len(cs1 \o cs2) |-> data[r][(cs1 \o cs2)[k]]],
     log_fold_change |-> FoldChange(data, r, cs1, cs2, FCScale(columns)),
     p_value |-> TTestP(data, r, cs1, cs2)]

\* a row DataFrame.dropna() keeps: no missing value in any column
NoNaN(rec) ==
    /\ rec.gene # NaNStr
    /\ \A k \in 1..Len(rec.cells) : ~IsNaN(rec.cells[k])
    /\ ~IsNaN(rec.log_fold_change)
    /\ ~IsNaN(rec.p_value)

\* the table sorted before it is saved, the last row of the matrix first
DETableSorted(columns, data, g1, g2) ==
    LET cs1 == ColIdxs(columns, _get_group_cols(columns, StrArg(g1)))
        cs2 == ColIdxs(columns, _get_group_cols(columns, StrArg(g2)))
    IN  SelectSeq([r \in 1..Len(data) |-> DERow(columns, data, Len(data) + 1 - r, cs1, cs2)],
                  NoNaN)

\* grouped_data after dropna(): the table that is saved and plotted
DETable(columns, data, g1, g2) ==
    LET cs1 == ColIdxs(columns, _get_group_cols(columns, StrArg(g1)))
        cs2 == ColIdxs(columns, _get_group_cols(columns, StrArg(g2)))
    IN  SelectSeq([r \in 1..Len(data) |-> DERow(columns, data, r, cs1, cs2)], NoNaN)

\* dropna(inplace) on a view of self.data: the dropped rows leave the matrix
DataDroppedInPlace(columns, data, g1, g2) ==
    LET table == DETable(columns, data, g1, g2)
    IN  [k \in 1..Len(table) |-> data[table[k].row]]

\* self.data after a single-pair analysis: grouped_data is a new frame
\* (.loc with a list of labels copies), so the two computed columns and
\* dropna() act on the copy and self.data is as it was
DataAfterSingleDE(columns, data, g1, g2) == data

IsSignificantLax(rec, pthr, fcthr, scale) ==
    rec.p_value <= pthr /\ Abs(rec.log_fold_change) >= fcthr * scale

\* the mask of the returned rows
IsSignificant(rec, pthr, fcthr, scale) ==
    rec.p_value < pthr /\ Abs(rec.log_fold_change) > fcthr * scale

\* the returned list of feature keys
SignificantGenes(table, pthr, fcthr, scale) ==
    LET sel == SelectSeq(table, LAMBDA rec : IsSignificant(rec, pthr, fcthr, scale))
    IN  [k \in 1..Len(sel) |-> sel[k].gene]

\* itertools.combinations(range(1, n + 1), 2), in the order it yields them
RECURSIVE CombFrom(_, _, _)
CombFrom(i, j, n) ==
    IF i >= n THEN <<>>
    ELSE IF j > n THEN CombFrom(i + 1, i + 2, n)
    ELSE <<(<<i, j>>)>> \o CombFrom(i, j + 1, n)

CombinationsWithSelf(n) == CombFrom(1, 2, n) \o [i \in 1..n |-> <<i, i>>]

Combinations(n) == CombFrom(1, 2, n)

\* f"{group1_name}_{group2_name}"
\* the two names joined without the separator
PairKeyNoSeparator(g1, g2) == g1 \o g2

\* f"{group1_name}_{group2_name}", also "_".join([group1_name, group2_name])
PairKey(g1, g2) == g1 \o <<"_">> \o g2

VolcanoFig(g1, g2) == [dir |-> "plot_dir", name |-> PairKey(g1, g2) \o <<"_volcano.png">>]
DEOutput(g1, g2) == [dir |-> "output_dir", name |-> PairKey(g1, g2) \o <<"_de_analysis.xlsx">>]
PathwayFig(g1, g2) == [dir |-> "plot_dir", name |-> PairKey(g1, g2) \o <<"_pathways.png">>]
PathwayOutput(g1, g2) == [dir |-> "output_dir", name |-> PairKey(g1, g2) \o <<"_pathways.xlsx">>]

EmptyMap == [x \in {} |-> x]

\* de_paths[key][kind] = path on a defaultdict(dict)
SetPath(m, key, kind, path) ==
    LET old == IF key \in DOMAIN m THEN m[key] ELSE EmptyMap
    IN  (key :> ((kind :> path) @@ old)) @@ m

(***************************************************************************)
(* Exact quotients.  A quotient of two numbers is kept as a reduced        *)
(* fraction [n, d] with d > 0; as in floating point 0/0 is NaN and x/0 is   *)
(* an infinity, [1, 0] or [-1, 0].                                         *)
(***************************************************************************)
FracNaN == [n |-> 0, d |-> 0]

IsFracNaN(a) == a.n = 0 /\ a.d = 0

Frac(n, d) ==
    IF d = 0 THEN [n |-> (IF n > 0 THEN 1 ELSE IF n < 0 THEN -1 ELSE 0), d |-> 0]
    ELSE LET sn == IF d < 0 THEN -n ELSE n
             sd == Abs(d)
             g  == Gcd(Abs(sn), sd)
         IN  [n |-> sn \div g, d |-> sd \div g]

FracOfInt(v) == IF IsNaN(v) THEN FracNaN ELSE [n |-> v, d |-> 1]

FracLess(a, b) == a.n * b.d < b.n * a.d

FracSub(a, b) ==
    IF IsFracNaN(a) \/ IsFracNaN(b) THEN FracNaN
    ELSE IF a.d = 0 THEN (IF b.d = 0 /\ b.n = a.n THEN FracNaN ELSE a)
    ELSE IF b.d = 0 THEN [n |-> -b.n, d |-> 0]
    ELSE Frac(a.n * b.d - b.n * a.d, a.d * b.d)

FracDiv(a, b) ==
    IF IsFracNaN(a) \/ IsFracNaN(b) THEN FracNaN
    ELSE IF a.d = 0 THEN (IF b.d = 0 THEN FracNaN ELSE IF b.n < 0 THEN [n |-> -a.n, d |-> 0] ELSE a)
    ELSE IF b.d = 0 THEN [n |-> 0, d |-> 1]
    ELSE Frac(a.n * b.d, a.d * b.n)

FracTimesInt(a, k) == IF IsFracNaN(a) THEN FracNaN ELSE Frac(a.n * k, a.d)

(***************************************************************************)
(* AutoAnalysis._calculate_missing_data, called by __init__ on the raw     *)
(* matrix.                                                                 *)
(***************************************************************************)
\* (frame == 0) on one cell: a text cell is never equal to 0, nor is NaN
CellIsZero(columns, data, r, c) == columns[c] # GeneNameCol /\ data[r][c] = 0

\* the zeros are counted in every column of the frame but the identifiers'
_calculate_missing_data_every_column(columns, data, groups) ==
    LET cols      == SelectSeq([c \in 1..Len(columns) |-> c], LAMBDA c : columns[c] # GeneNameCol)
        num_zeros == Cardinality({rk \in (DOMAIN data) \X (1..Len(cols)) :
                                      CellIsZero(columns, data, rk[1], cols[rk[2]])})
        num_total == Len(data) * Len(cols)
    IN  IF num_total = 0 THEN Raise("ZeroDivisionError")
        ELSE Ok(FracTimesInt(Frac(num_zeros, num_total), 100))

\* num_zeros / num_total * 100; the division raises when num_total is 0
_calculate_missing_data(columns, data, groups) ==
    LET cols      == ColIdxs(columns, _get_group_cols(columns, ListArg(groups)))
        num_zeros == Cardinality({rk \in (DOMAIN data) \X (1..Len(cols)) :
                                      CellIsZero(columns, data, rk[1], cols[rk[2]])})
        num_total == Len(data) * Len(cols)
    IN  IF num_total = 0 THEN Raise("ZeroDivisionError")
        ELSE Ok(FracTimesInt(Frac(num_zeros, num_total), 100))

(***************************************************************************)
(* The stage classes, method by method.  The fitted state of a stage       *)
(* object is a record; NotFitted is the state of a new object.             *)
(***************************************************************************)
NotFitted == [by |-> "nothing"]

\* what fit leaves behind: the fitted state, and the exception if it raised
Fitted(state) == [fitted |-> state, err |-> "none"]
FitRaised(state, e) == [fitted |-> state, err |-> e]

\* Log2Scaler.fit is "pass"
Log2Scaler_fit(before, block) == Fitted(before)

Log2Scaler_transform(fitted, block) ==
    Ok([r \in DOMAIN block |-> [k \in DOMAIN block[r] |-> Log2Cell(block[r][k])]])

(***************************************************************************)
(* The other scalers of scalers.py.  A finite result is kept as the        *)
(* integer it rounds to, towards zero; e is taken as 19/7 and square roots *)
(* are taken in tenths.                                                    *)
(***************************************************************************)
\* the float -inf
NegInf == -2000000

IsFinite(x) == x # NaN /\ x # NegInf

RECURSIVE FloorLog10(_)
FloorLog10(v) == IF v < 10 THEN 0 ELSE 1 + FloorLog10(v \div 10)

\* the largest n with e^n <= num / den, for num >= den > 0
RECURSIVE FloorLn(_, _)
FloorLn(num, den) == IF 19 * den > 7 * num THEN 0 ELSE 1 + FloorLn(7 * num, 19 * den)

\* ln(num / den) rounded towards zero, for num, den > 0
TruncLn(num, den) == IF num >= den THEN FloorLn(num, den) ELSE 0 - FloorLn(den, num)

ISqrt(n) == CHOOSE s \in 0..n : s * s <= n /\ (s + 1) * (s + 1) > n

\* np.log10(data).replace(-np.inf, 0): log10 of a negative number is nan
Log10Cell(v) ==
    IF IsNaN(v) THEN NaN
    ELSE IF v > 0 THEN FloorLog10(v)
    ELSE IF v = 0 THEN 0
    ELSE NaN

\* np.log(data).replace(-np.inf, 0)
LogCell(v) ==
    IF IsNaN(v) THEN NaN
    ELSE IF v > 0 THEN TruncLn(v, 1)
    ELSE IF v = 0 THEN 0
    ELSE NaN

\* np.log(data**lambda_value - 1) / lambda_value with lambda_value = 0.5:
\* the square root of a negative number is nan, log(-1) is nan at 0,
\* log(0) is -inf at 1; beyond, 2 ln(sqrt(v) - 1) = ln((sqrt(v) - 1)^2)
GeneralisedLogCell(v) ==
    IF IsNaN(v) THEN NaN
    ELSE IF v < 0 THEN NaN
    ELSE IF v = 0 THEN NaN
    ELSE IF v = 1 THEN NegInf
    ELSE LET x == ISqrt(100 * v) - 10
         IN  TruncLn(x * x, 100)

\* np.arcsinh(data) = sign(v) ln(|v| + sqrt(v^2 + 1))
ArcsinhCell(v) ==
    IF IsNaN(v) THEN NaN
    ELSE IF v = NegInf THEN NegInf
    ELSE IF v = 0 THEN 0
    ELSE LET a == TruncLn(10 * Abs(v) + ISqrt(100 * (v * v + 1)), 10)
         IN  IF v < 0 THEN 0 - a ELSE a

\* transform of the scaler class kind, cell by cell
ScalerCell(kind, v) ==
    CASE kind = "Log2Scaler"           -> Log2Cell(v)
      [] kind = "Log10Scaler"          -> Log10Cell(v)
      [] kind = "LogScaler"            -> LogCell(v)
      [] kind = "GeneralisedLogScaler" -> GeneralisedLogCell(v)
      [] kind = "ArcsinhScaler"        -> ArcsinhCell(v)

\* fit of every scaler is "pass"
Scaler_fit(before, block) == Fitted(before)

Scaler_transform(kind, fitted, block) ==
    Ok([r \in DOMAIN block |-> [k \in DOMAIN block[r] |-> ScalerCell(kind, block[r][k])]])

ScalerKinds ==
    {"Log2Scaler", "Log10Scaler", "LogScaler", "GeneralisedLogScaler", "ArcsinhScaler"}

\* KNN_Imputer.fit: self.imputer is a new KNNImputer, fitted on the rows
\* that survive the threshold; KNNImputer.fit raises on a matrix without rows
\* or without columns
KNN_Imputer_fit(before, block, ncols) ==
    LET clean == ZeroToNaN(block)
        kept  == KeptRows(clean, ncols)
    IN  IF ncols = 0 \/ kept = {}
        THEN FitRaised([by |-> "KNNImputer", fit_X |-> <<>>, rows |-> {}], "ValueError")
        ELSE Fitted([by |-> "KNNImputer", fit_X |-> clean, rows |-> kept])

\* every cell of a surviving row is replaced by the mean of its donors
KNN_Imputer_transform_smoothing(fitted, block, ncols) ==
    LET clean == ZeroToNaN(block)
        kept  == KeptRows(clean, ncols)
    IN  IF fitted.by # "KNNImputer" THEN Raise("AttributeError")
        ELSE IF fitted.rows = {} THEN Raise("NotFittedError")
        ELSE IF ncols = 0 \/ kept = {} THEN Raise("ValueError")
        ELSE IF \E k \in 1..ncols : Donors(fitted.fit_X, fitted.rows, k) = {}
        THEN Raise("ValueError")
        ELSE Ok([r \in DOMAIN block |-> [k \in 1..ncols |->
                IF r \notin kept THEN NaN
                ELSE LET d == Donors(fitted.fit_X, fitted.rows, k)
                     IN  SumOver(fitted.fit_X, d, k) \div Cardinality(d)]])

\* KNN_Imputer.transform: the survivors of the same threshold are imputed
\* from the fitted rows and the frame is re-expanded to the index of data
KNN_Imputer_transform(fitted, block, ncols) ==
    LET clean == ZeroToNaN(block)
        kept  == KeptRows(clean, ncols)
    IN  IF fitted.by # "KNNImputer" THEN Raise("AttributeError")
        ELSE IF fitted.rows = {} THEN Raise("NotFittedError")
        ELSE IF ncols = 0 \/ kept = {} THEN Raise("ValueError")
        ELSE IF \E k \in 1..ncols : Donors(fitted.fit_X, fitted.rows, k) = {}
        THEN Raise("ValueError")
        ELSE Ok([r \in DOMAIN block |-> [k \in 1..ncols |->
                IF r \notin kept THEN NaN
                ELSE IF ~IsNaN(clean[r][k]) THEN clean[r][k]
                ELSE LET d == Donors(fitted.fit_X, fitted.rows, k)
                     IN  SumOver(fitted.fit_X, d, k) \div Cardinality(d)]])

\* PowerScaler: the fitted transformer holds what it learnt from the columns
\* of the fitted block
PowerScaler_fit(before, block, ncols) ==
    IF ncols = 0 THEN FitRaised([by |-> "PowerTransformer", fit_X |-> <<>>], "ValueError")
    ELSE Fitted([by |-> "PowerTransformer", fit_X |-> block])

PowerScaler_transform(fitted, block, ncols) ==
    IF fitted.by # "PowerTransformer" THEN Raise("AttributeError")
    ELSE IF fitted.fit_X = <<>> THEN Raise("NotFittedError")
    ELSE Ok([r \in DOMAIN block |-> [k \in 1..ncols |->
            IF IsNaN(block[r][k]) THEN NaN
            ELSE LET X == fitted.fit_X
                 IN  Cardinality({q \in DOMAIN X : ~IsNaN(X[q][k]) /\ X[q][k] < block[r][k]})
                   - Cardinality({q \in DOMAIN X : ~IsNaN(X[q][k]) /\ X[q][k] > block[r][k]})]])

\* np.min / np.max of a set of cells, NaN skipped as DataFrame.min does; NaN
\* when there is no cell to take it of
FracMin(S) ==
    LET T == {a \in S : ~IsFracNaN(a)}
    IN  IF T = {} THEN FracNaN ELSE CHOOSE a \in T : \A b \in T : ~FracLess(b, a)

FracMax(S) ==
    LET T == {a \in S : ~IsFracNaN(a)}
    IN  IF T = {} THEN FracNaN ELSE CHOOSE a \in T : \A b \in T : ~FracLess(a, b)

\* the cells np.min(data) is taken over for column k: np.min on a frame calls
\* DataFrame.min(axis=None), which pandas before 2.0 evaluates column by
\* column and pandas from 2.0 on over the whole frame
ReducedCells(block, ncols, k, build) ==
    IF build = "min_by_column" THEN {block[r][k] : r \in DOMAIN block}
    ELSE {block[r][j] : r \in DOMAIN block, j \in 1..ncols}

\* MinMaxScaler.fit: self.min = np.min(data), self.max = np.max(data)
MinMaxScaler_fit(before, block, ncols, build) ==
    Fitted([by  |-> "MinMaxScaler",
            min |-> [k \in 1..ncols |-> FracMin(ReducedCells(block, ncols, k, build))],
            max |-> [k \in 1..ncols |-> FracMax(ReducedCells(block, ncols, k, build))]])

\* MinMaxScaler.transform: (data - self.min) / (self.max - self.min)
MinMaxScaler_transform(fitted, block, ncols) ==
    IF fitted.by # "MinMaxScaler" THEN Raise("AttributeError")
    ELSE IF Len(fitted.min) # ncols THEN Raise("ValueError")
    ELSE Ok([r \in DOMAIN block |-> [k \in 1..ncols |->
            FracDiv(FracSub(block[r][k], fitted.min[k]),
                    FracSub(fitted.max[k], fitted.min[k]))]])

HasNaN(block) == \E r \in DOMAIN block : \E k \in DOMAIN block[r] : IsNaN(block[r][k])

\* PCA.fit: self.pca is a new decomposition.PCA, fitted on data.T (the
\* columns of the block are the samples); it raises on NaN
PCA_fit(before, block, ncols) ==
    IF ncols = 0 \/ HasNaN(block)
    THEN FitRaised([by |-> "PCA", sums |-> <<>>, n |-> 0], "ValueError")
    ELSE Fitted([by |-> "PCA", sums |-> [r \in DOMAIN block |-> SumSeq(block[r])], n |-> ncols])

\* PCA.transform: data.T centred on the fitted mean, then rotated onto the
\* fitted components; kept here in the centred coordinates, times n
PCA_transform(fitted, block, ncols) ==
    IF fitted.by # "PCA" THEN Raise("AttributeError")
    ELSE IF fitted.n = 0 THEN Raise("NotFittedError")
    ELSE IF HasNaN(block) \/ Len(block) # Len(fitted.sums) THEN Raise("ValueError")
    ELSE Ok([k \in 1..ncols |-> [r \in DOMAIN block |->
            fitted.n * block[r][k] - fitted.sums[r]]])

NCols(block) == IF block = <<>> THEN 0 ELSE Len(block[1])

\* self.fit(data) of a stage object of class kind
Stage_fit(kind, build, before, block) ==
    CASE kind = "Log2Scaler"   -> Log2Scaler_fit(before, block)
      [] kind \in ScalerKinds \ {"Log2Scaler"} -> Scaler_fit(before, block)
      [] kind = "KNN_Imputer"  -> KNN_Imputer_fit(before, block, NCols(block))
      [] kind = "MinMaxScaler" -> MinMaxScaler_fit(before, block, NCols(block), build)
      [] kind = "PowerScaler"  -> PowerScaler_fit(before, block, NCols(block))
      [] kind = "PCA"          -> PCA_fit(before, block, NCols(block))

\* self.transform(data)
Stage_transform(kind, fitted, block) ==
    CASE kind = "Log2Scaler"   -> Log2Scaler_transform(fitted, block)
      [] kind \in ScalerKinds \ {"Log2Scaler"} -> Scaler_transform(kind, fitted, block)
      [] kind = "KNN_Imputer"  -> KNN_Imputer_transform(fitted, block, NCols(block))
      [] kind = "MinMaxScaler" -> MinMaxScaler_transform(fitted, block, NCols(block))
      [] kind = "PowerScaler"  -> PowerScaler_transform(fitted, block, NCols(block))
      [] kind = "PCA"          -> PCA_transform(fitted, block, NCols(block))

\* fit is skipped on an object that was fitted before
Stage_fit_transform_once(kind, build, before, block) ==
    LET f == IF before = NotFitted THEN Stage_fit(kind, build, before, block) ELSE Fitted(before)
    IN  [fitted |-> f.fitted,
         out    |-> IF f.err # "none" THEN Raise(f.err) ELSE Stage_transform(kind, f.fitted, block)]

\* fit_transform of the four base classes: self.fit(data), then
\* return self.transform(data); an exception of fit leaves before transform
Stage_fit_transform(kind, build, before, block) ==
    LET f == Stage_fit(kind, build, before, block)
    IN  [fitted |-> f.fitted,
         out    |-> IF f.err # "none" THEN Raise(f.err) ELSE Stage_transform(kind, f.fitted, block)]

(***************************************************************************)
(* State of one AutoAnalysis object and of the run() call on it.           *)
(***************************************************************************)
VARIABLES
    columns,                    \* self.data.columns
    data,                       \* self.data
    groups,                     \* self.groups
    p_value_threshold,          \* self.p_value_threshold, in thousandths
    log_fold_change_threshold,  \* self.log_fold_change_threshold
    de_paths,                   \* self.de_paths: [set |-> FALSE] is None
    attrs,                      \* the optional attributes assigned so far
    files,                      \* the files written, by path
    pc,                         \* the position of the caller in run()
    impIdx,                     \* loop index of _impute_data
    pairIdx,                    \* loop index of _run_all_de_analysis
    sig_genes,                  \* the list returned by the last single-pair call
    error,                      \* the exception that left run(), if any
    started,                    \* stages entered, in order
    completed,                  \* stages returned from, in order
    deCalls,                    \* the calls of _run_single_de_anaylsis: <<g1, g2>>
    deReturns,                  \* what each of them returned or raised
    enrichCalls,                \* the calls of gp.enrichr: [key, gene_list, raised]
    plotFailures,               \* plots whose rendering raised: [plot, key, surfaced]
    group_name,                 \* the argument of a direct call of _get_group_cols
    resolved,                   \* and what the call returned
    missing_data_percentage,    \* self.missing_data_percentage
    raw,                        \* the matrix as the caller loaded it
    earlier,                    \* what an earlier run on an equal input left behind
    stageObj,                   \* a stage object used on its own: its class and fitted state
    stageArg,                   \* the block handed to it
    stageOut,                   \* the results its calls returned, in order
    report,                     \* what Reporter.generate_report did on this object
    impute_plot                 \* the plot argument of _impute_data

vars == <<columns, data, groups, p_value_threshold, log_fold_change_threshold,
          de_paths, attrs, files, pc, impIdx, pairIdx, sig_genes, error,
          started, completed, deCalls, deReturns, enrichCalls, plotFailures,
          group_name, resolved, missing_data_percentage, raw, earlier,
          stageObj, stageArg, stageOut, report, impute_plot>>

config == <<columns, groups, p_value_threshold, log_fold_change_threshold,
            missing_data_percentage, impute_plot>>
resolver == <<group_name, resolved>>
history == <<raw, earlier, report>>
bench == <<stageObj, stageArg, stageOut>>
logs == <<deCalls, deReturns, enrichCalls, plotFailures>>

NoError == [kind |-> "none", at |-> "none"]

\* no Reporter has been used on the object
NoReport == [state |-> "none", err |-> "none", lookups |-> <<>>]
None == [set |-> FALSE, m |-> EmptyMap]

\* run() with two of its calls exchanged
RunOrderScaleFirst ==
    <<"ensure_dirs", "scale", "clean_ids", "impute", "normalise", "persist", "project", "de">>

\* the calls of run(), in the order of its statements
RunOrder ==
    <<"ensure_dirs", "clean_ids", "scale", "impute", "normalise", "persist", "project", "de">>

\* the position of the caller once a stage has returned
StateAfter ==
    [stage \in Range(RunOrder) |->
        CASE stage = "ensure_dirs" -> "DirectoriesEnsured"
          [] stage = "clean_ids"   -> "IdentifiersCleaned"
          [] stage = "scale"       -> "Scaled"
          [] stage = "impute"      -> "Imputed"
          [] stage = "normalise"   -> "Normalised"
          [] stage = "persist"     -> "Persisted"
          [] stage = "project"     -> "Projected"
          [] stage = "de"          -> "DEAnalysisComplete"]

StageIdx(stage) == CHOOSE i \in 1..Len(RunOrder) : RunOrder[i] = stage

\* the caller is at the statement of run() that calls the stage
At(stage) ==
    pc = IF StageIdx(stage) = 1 THEN "Init" ELSE StateAfter[RunOrder[StageIdx(stage) - 1]]

\* the exception is caught and run() goes on with its next statement
AbortAndContinue(stage, kind) ==
    /\ pc' = StateAfter[stage]
    /\ error' = [kind |-> kind, at |-> stage]

\* an exception leaves run(): nothing after the raising statement executes
Abort(stage, kind) ==
    /\ pc' = "Aborted"
    /\ error' = [kind |-> kind, at |-> stage]

Enter(stage) == started' = Append(started, stage)
Return(stage) ==
    /\ completed' = Append(completed, stage)
    /\ pc' = StateAfter[stage]

AllGroupCols == ColIdxs(columns, _get_group_cols(columns, ListArg(groups)))
GeneIdx == ColIdx(columns, GeneNameCol)

(***************************************************************************)
(* run(), lines 76-88: the preprocessing stages.                           *)
(***************************************************************************)
\* _check_dirs_exist: mkdir can fail (a missing parent, permissions)
CheckDirsExist ==
    /\ At("ensure_dirs")
    /\ Enter("ensure_dirs")
    /\ \/ /\ Return("ensure_dirs")
          /\ UNCHANGED error
       \/ /\ Abort("ensure_dirs", "OSError")
          /\ UNCHANGED completed
    /\ UNCHANGED <<config, history, bench, resolver, data, de_paths, attrs, files, impIdx, pairIdx, sig_genes, logs>>

\* str.split(";").str[0]: the text before the first ";"
RECURSIVE BeforeSemicolon(_)
BeforeSemicolon(name) ==
    IF name = <<>> \/ Head(name) = ";" THEN <<>>
    ELSE <<Head(name)>> \o BeforeSemicolon(Tail(name))

CleanName(name) == IF name = NaNStr THEN NaNStr ELSE BeforeSemicolon(name)

CleanGeneNames ==
    /\ At("clean_ids")
    /\ Enter("clean_ids")
    /\ data' = [r \in DOMAIN data |->
                   [data[r] EXCEPT ![GeneIdx] = CleanName(data[r][GeneIdx])]]
    /\ Return("clean_ids")
    /\ UNCHANGED <<config, history, bench, resolver, de_paths, attrs, files, impIdx, pairIdx, sig_genes, error, logs>>

\* _scale_data with the default Log2Scaler
ScaleData ==
    /\ At("scale")
    /\ Enter("scale")
    /\ IF GeneIdx \in Range(AllGroupCols)
       THEN /\ Abort("scale", "TypeError")
            /\ UNCHANGED <<data, attrs, completed>>
       ELSE /\ data' = AssignCols(data, AllGroupCols,
                                  Log2Scaler_fit_transform(Block(data, AllGroupCols)))
            /\ attrs' = attrs \cup {"scaler"}
            /\ Return("scale")
            /\ UNCHANGED error
    /\ UNCHANGED <<config, history, bench, resolver, de_paths, files, impIdx, pairIdx, sig_genes, logs>>

\* ImputationPlot.plot draws max(ncols, 4) panels and indexes a column for
\* each: it raises IndexError for a block of fewer than 4 columns
ImputationPlotPanels == 4

ImputationPath(group) == [dir |-> "plot_dir", name |-> <<"imputation_">> \o group \o <<".png">>]

\* one iteration of the loop of _impute_data(plot), default KNN_Imputer
ImputeGroup(plot) ==
    /\ At("impute")
    /\ impIdx <= Len(groups)
    /\ started' = IF impIdx = 1 THEN Append(started, "impute") ELSE started
    /\ LET group == groups[impIdx]
           cs    == ColIdxs(columns, _get_group_cols(columns, StrArg(group)))
           res   == KNN_Imputer_fit_transform(Block(data, cs), Len(cs))
           last  == impIdx = Len(groups)
       IN  /\ attrs' = attrs \cup {"imputer"} \cup (IF plot THEN {"imputation_plot_path"} ELSE {})
           /\ IF ~plot
              THEN /\ impIdx' = impIdx + 1
                   /\ IF last THEN Return("impute") ELSE UNCHANGED <<pc, completed>>
                   /\ UNCHANGED <<data, files, error, plotFailures>>
              ELSE IF ~res.ok
              THEN /\ Abort("impute", res.err)
                   /\ UNCHANGED <<data, files, impIdx, completed, plotFailures>>
              ELSE IF Len(cs) < ImputationPlotPanels
              THEN /\ Abort("impute", "IndexError")
                   /\ plotFailures' = Append(plotFailures,
                          [plot |-> "imputation", key |-> group, surfaced |-> TRUE])
                   /\ UNCHANGED <<data, files, impIdx, completed>>
              ELSE \/ /\ data' = AssignCols(data, cs, res.v)
                      /\ files' = (ImputationPath(group) :> "figure") @@ files
                      /\ impIdx' = impIdx + 1
                      /\ IF last THEN Return("impute") ELSE UNCHANGED <<pc, completed>>
                      /\ UNCHANGED <<error, plotFailures>>
                   \/ /\ Abort("impute", "RenderError")
                      /\ plotFailures' = Append(plotFailures,
                             [plot |-> "imputation", key |-> group, surfaced |-> TRUE])
                      /\ UNCHANGED <<data, files, impIdx, completed>>
    /\ UNCHANGED <<config, history, bench, resolver, de_paths, pairIdx, sig_genes, deCalls, deReturns, enrichCalls>>

\* _normalise_data with the default PowerScaler; the likelihood optimiser
\* inside PowerTransformer.fit can fail on the data it is given
NormaliseData ==
    /\ At("normalise")
    /\ Enter("normalise")
    /\ attrs' = attrs \cup {"normaliser"}
    /\ LET res == PowerScaler_fit_transform(Block(data, AllGroupCols), Len(AllGroupCols))
       IN  IF res.ok
           THEN \/ /\ data' = AssignCols(data, AllGroupCols, res.v)
                   /\ Return("normalise")
                   /\ UNCHANGED error
                \/ /\ Abort("normalise", "OptimizeError")
                   /\ UNCHANGED <<data, completed>>
           ELSE /\ Abort("normalise", res.err)
                /\ UNCHANGED <<data, completed>>
    /\ UNCHANGED <<config, history, bench, resolver, de_paths, files, impIdx, pairIdx, sig_genes, logs>>

MatrixPath == [dir |-> "output_dir", name |-> <<"imputed_and_normalised.xlsx">>]

\* _save_data: to_excel can fail
SaveData ==
    /\ At("persist")
    /\ Enter("persist")
    /\ \/ /\ files' = (MatrixPath :> data) @@ files
          /\ Return("persist")
          /\ UNCHANGED error
       \/ /\ Abort("persist", "OSError")
          /\ UNCHANGED <<files, completed>>
    /\ UNCHANGED <<config, history, bench, resolver, data, de_paths, attrs, impIdx, pairIdx, sig_genes, logs>>

PcaPath == [dir |-> "plot_dir", name |-> <<"pca.png">>]

\* rows of the group block without a missing cell (dropna())
CompleteRows == {r \in DOMAIN data : \A k \in 1..Len(AllGroupCols) : ~IsNaN(data[r][AllGroupCols[k]])}

\* _run_pca(plot=True): PCA cannot be fitted on a block without rows; the
\* projection plot is drawn by the plotting collaborator and can fail
RunPCA ==
    /\ At("project")
    /\ Enter("project")
    /\ attrs' = attrs \cup {"reducer"} \cup (IF CompleteRows = {} THEN {} ELSE {"dim_reducer_plot_path"})
    /\ IF CompleteRows = {}
       THEN /\ Abort("project", "ValueError")
            /\ UNCHANGED <<files, completed, plotFailures>>
       ELSE \/ /\ files' = (PcaPath :> "figure") @@ files
               /\ Return("project")
               /\ UNCHANGED <<error, plotFailures>>
            \/ /\ Abort("project", "RenderError")
               /\ plotFailures' = Append(plotFailures,
                      [plot |-> "projection", key |-> <<"pca">>, surfaced |-> TRUE])
               /\ UNCHANGED <<files, completed>>
    /\ UNCHANGED <<config, history, bench, resolver, data, de_paths, impIdx, pairIdx, sig_genes, deCalls, deReturns, enrichCalls>>

(***************************************************************************)
(* run(), line 90: _run_all_de_analysis and the calls of its loop.         *)
(***************************************************************************)
\* combinations(self.groups, 2), as pairs of positions in self.groups
Pairs == Combinations(Len(groups))

Group1 == groups[Pairs[pairIdx][1]]
Group2 == groups[Pairs[pairIdx][2]]
CurKey == PairKey(Group1, Group2)

ShouldEnrichAlways(sig) == TRUE

\* "if sig_genes:": a non-empty list
ShouldEnrich(sig) == sig # <<>>

RunAllDEStart ==
    /\ At("de")
    /\ Enter("de")
    /\ de_paths' = [set |-> TRUE, m |-> EmptyMap]
    /\ pairIdx' = 1
    /\ pc' = "DE_pair"
    /\ UNCHANGED <<config, history, bench, resolver, data, attrs, files, impIdx, sig_genes, error, completed, logs>>

\* to_excel on a path that exists already adds the rows to the file
ToExcelAppending(path, table) ==
    (path :> (IF path \in DOMAIN files THEN files[path] \o table ELSE table)) @@ files

\* DataFrame.to_excel(path): the file holds the frame, whatever it held before
ToExcel(path, table) == (path :> table) @@ files

\* lines 194-209: the volcano path is recorded, then the single-pair analysis
\* runs: table, to_excel, VolcanoPlot.plot (whose max() over the fold changes
\* raises ValueError on an empty table), significant list
SingleDE ==
    /\ pc = "DE_pair"
    /\ pairIdx <= Len(Pairs)
    /\ de_paths' = [de_paths EXCEPT !.m = SetPath(@, CurKey, "volcano_fig", VolcanoFig(Group1, Group2))]
    /\ deCalls' = Append(deCalls, <<Group1, Group2>>)
    /\ data' = DataAfterSingleDE(columns, data, Group1, Group2)
    /\ LET table == DETable(columns, data, Group1, Group2)
           sig   == SignificantGenes(table, p_value_threshold, log_fold_change_threshold,
                                     FCScale(columns))
           saved == ToExcel(DEOutput(Group1, Group2), table)
           fail(kind, persisted) ==
               /\ Abort("de", kind)
               /\ deReturns' = Append(deReturns, [key |-> CurKey, raised |-> kind,
                                                  persisted |-> persisted, sig |-> <<>>])
               /\ UNCHANGED <<pairIdx, sig_genes>>
       IN  \/ /\ fail("OSError", FALSE)
              /\ UNCHANGED <<files, plotFailures>>
           \/ /\ table = <<>>
              /\ fail("ValueError", TRUE)
              /\ files' = saved
              /\ plotFailures' = Append(plotFailures,
                     [plot |-> "volcano", key |-> CurKey, surfaced |-> TRUE])
           \/ /\ table # <<>>
              /\ fail("RenderError", TRUE)
              /\ files' = saved
              /\ plotFailures' = Append(plotFailures,
                     [plot |-> "volcano", key |-> CurKey, surfaced |-> TRUE])
           \/ /\ table # <<>>
              /\ files' = (VolcanoFig(Group1, Group2) :> "figure") @@ saved
              /\ sig_genes' = sig
              /\ deReturns' = Append(deReturns, [key |-> CurKey, raised |-> "none",
                                                 persisted |-> TRUE, sig |-> sig])
              /\ pc' = IF ShouldEnrich(sig) THEN "DE_pathway" ELSE "DE_pair"
              /\ pairIdx' = IF ShouldEnrich(sig) THEN pairIdx ELSE pairIdx + 1
              /\ UNCHANGED <<error, plotFailures>>
    /\ UNCHANGED <<config, history, bench, resolver, attrs, impIdx, started, completed, enrichCalls>>

\* lines 211-226 and _run_pathway_analysis: gp.enrichr is a network call and
\* can raise; the bar plot is drawn inside a bare try/except
PathwayAnalysis ==
    /\ pc = "DE_pathway"
    /\ de_paths' = [de_paths EXCEPT !.m = SetPath(@, CurKey, "pathway_fig", PathwayFig(Group1, Group2))]
    /\ LET saved == (PathwayOutput(Group1, Group2) :> [enriched |-> sig_genes]) @@ files
           call(raised) == enrichCalls' = Append(enrichCalls,
                               [key |-> CurKey, gene_list |-> sig_genes, raised |-> raised])
       IN  \/ /\ call(TRUE)
              /\ Abort("de", "EnrichrError")
              /\ UNCHANGED <<files, pairIdx, plotFailures>>
           \/ /\ call(FALSE)
              /\ Abort("de", "OSError")
              /\ UNCHANGED <<files, pairIdx, plotFailures>>
           \/ /\ call(FALSE)
              /\ files' = (PathwayFig(Group1, Group2) :> "figure") @@ saved
              /\ pairIdx' = pairIdx + 1
              /\ pc' = "DE_pair"
              /\ UNCHANGED <<error, plotFailures>>
           \/ /\ call(FALSE)
              /\ files' = saved
              /\ plotFailures' = Append(plotFailures,
                     [plot |-> "pathway", key |-> CurKey, surfaced |-> FALSE])
              /\ pairIdx' = pairIdx + 1
              /\ pc' = "DE_pair"
              /\ UNCHANGED error
    /\ UNCHANGED <<config, history, bench, resolver, data, attrs, impIdx, sig_genes, started, completed, deCalls, deReturns>>

RunAllDEFinish ==
    /\ pc = "DE_pair"
    /\ pairIdx > Len(Pairs)
    /\ Return("de")
    /\ UNCHANGED <<config, history, bench, resolver, data, de_paths, attrs, files, impIdx, pairIdx, sig_genes, error,
                   started, logs>>

(***************************************************************************)
(* Reporter.generate_report on the analysis object (reporting.py).         *)
(***************************************************************************)
\* the entries of de_paths the loop of lines 150-173 looks up, in order:
\* for each pair of combinations(groups, 2), volcano_fig then pathway_fig
ReportLookups ==
    [i \in 1..(2 * Len(Pairs)) |->
        [key   |-> PairKey(groups[Pairs[(i + 1) \div 2][1]], groups[Pairs[(i + 1) \div 2][2]]),
         field |-> IF i % 2 = 1 THEN "volcano_fig" ELSE "pathway_fig"]]

\* de_paths[key][field] raises KeyError for an entry that was not recorded;
\* add_picture opens the file and raises when it does not exist
LookupError(l) ==
    IF l.key \notin DOMAIN de_paths.m THEN "KeyError"
    ELSE IF l.field \notin DOMAIN de_paths.m[l.key] THEN "KeyError"
    ELSE IF de_paths.m[l.key][l.field] \notin DOMAIN files THEN "FileNotFoundError"
    ELSE "none"

\* add_picture(str(self.analysis.<attr>)) of the preprocessing sections
PictureError(attr, path) ==
    IF attr \notin attrs THEN "AttributeError"
    ELSE IF path \notin DOMAIN files THEN "FileNotFoundError"
    ELSE "none"

\* generate_report, lines 32-55: the sections in order; the first exception
\* leaves the call, and the document is saved only at the end
GenerateReport ==
    /\ pc = "DEAnalysisComplete"
    /\ report.state = "none"
    /\ LET bad    == {i \in 1..Len(ReportLookups) : LookupError(ReportLookups[i]) # "none"}
           first  == CHOOSE i \in bad : \A j \in bad : i <= j
           raised(e, n) == report' = [state |-> "raised", err |-> e,
                                      lookups |-> SubSeq(ReportLookups, 1, n)]
           impErr == PictureError("imputation_plot_path", ImputationPath(groups[Len(groups)]))
           redErr == PictureError("dim_reducer_plot_path", PcaPath)
       IN  IF "scaler" \notin attrs THEN raised("AttributeError", 0)
           ELSE IF "imputer" \in attrs /\ impErr # "none" THEN raised(impErr, 0)
           ELSE IF "reducer" \in attrs /\ redErr # "none" THEN raised(redErr, 0)
           ELSE IF ~de_paths.set \/ de_paths.m = EmptyMap
           THEN \/ report' = [state |-> "saved", err |-> "none", lookups |-> <<>>]
                \/ raised("OSError", 0)
           ELSE IF bad # {} THEN raised(LookupError(ReportLookups[first]), first)
           ELSE \/ report' = [state |-> "saved", err |-> "none", lookups |-> ReportLookups]
                \/ raised("OSError", Len(ReportLookups))
    /\ UNCHANGED <<config, resolver, bench, raw, earlier, data, de_paths, attrs, files, pc, impIdx,
                   pairIdx, sig_genes, error, started, completed, logs>>

(***************************************************************************)
(* Inputs.                                                                 *)
(***************************************************************************)
TA == <<"A">>
TB == <<"B">>
TC == <<"C">>
TZ == <<"Z">>
T1 == <<"1">>
T2 == <<"2">>
\* a token that also occurs in the label of the feature-identifier column
TE == <<"e">>

Label(g, i) == <<g, i>>

\* a matrix with four samples per group, as ImputationPlot requires
WideColumns ==
    <<GeneNameCol>> \o [k \in 1..12 |->
        Label(<<"A", "B", "C">>[((k - 1) \div 4) + 1], <<"1", "2", "3", "4">>[((k - 1) % 4) + 1])]

WideRows ==
    { <<(<<"T", ";", "1">>)>> \o <<2, 2, 2, 2>> \o <<8, 8, 8, 8>> \o <<2, 2, 8, 8>>,
      <<(<<"P">>)>>           \o <<8, 8, 8, 8>> \o <<2, 2, 2, 2>> \o <<4, 4, 4, 4>>,
      <<(<<"T">>)>>           \o <<4, 4, 4, 4>> \o <<4, 4, 4, 4>> \o <<4, 4, 4, 4>>,
      <<(<<"K">>)>>           \o <<0, 4, 2, 2>> \o <<1, 8, 8, 8>> \o <<2, 2, 2, 2>>,
      <<(<<"Q", ";">>)>>      \o <<2, 8, 2, 2>> \o <<0, 0, 0, 8>> \o <<0, 0, 0, 0>>,
      <<(<<"M">>)>>           \o <<0, 0, 0, 2>> \o <<8, 8, 8, 2>> \o <<4, 2, 4, 2>> }

WideConfigs ==
    { <<TA>>, <<TA, TB>>, <<TB, TA>>, <<TA, TC>>, <<TA, TB, TC>>, <<TA, TZ>>, <<TA, T1>>,
      <<TA, TB, TC, TZ>>, <<TA, TE>> }

PThresholds == {30, 50}
FCThresholds == {1, 2}

InitObject ==
    /\ p_value_threshold \in PThresholds
    /\ log_fold_change_threshold \in FCThresholds
    /\ de_paths = None
    /\ attrs = {}
    /\ files = EmptyMap
    /\ impIdx = 1
    /\ pairIdx = 1
    /\ sig_genes = <<>>
    /\ error = NoError
    /\ started = <<>>
    /\ completed = <<>>
    /\ deCalls = <<>>
    /\ deReturns = <<>>
    /\ enrichCalls = <<>>
    /\ plotFailures = <<>>

NoCall == [done |-> FALSE, cols |-> <<>>]

\* no earlier run, and no stage object used on its own (NotFitted: a new object)
NoEarlier == [done |-> FALSE, files |-> EmptyMap, deCalls |-> <<>>, deReturns |-> <<>>]
NoStage == [kind |-> "none", build |-> "none", before |-> NotFitted, fitted |-> NotFitted]

\* __init__ on a matrix the caller loaded: the constructor returns only if
\* _calculate_missing_data does
Constructed ==
    /\ _calculate_missing_data(columns, data, groups).ok
    /\ missing_data_percentage = _calculate_missing_data(columns, data, groups).v
    /\ raw = data
    /\ earlier = NoEarlier
    /\ report = NoReport
    /\ impute_plot = TRUE
    /\ stageObj = NoStage
    /\ stageArg = <<>>
    /\ stageOut = <<>>

\* the object after __init__, before run()
Init ==
    /\ columns = WideColumns
    /\ data \in [1..NumRows -> WideRows]
    /\ groups \in {g \in WideConfigs : Len(g) <= MaxGroups}
    /\ pc = "Init"
    /\ InitObject
    /\ Constructed
    /\ group_name = StrArg(<<>>)
    /\ resolved = NoCall

Next ==
    \/ CheckDirsExist
    \/ CleanGeneNames
    \/ ScaleData
    \/ ImputeGroup(impute_plot)
    \/ NormaliseData
    \/ SaveData
    \/ RunPCA
    \/ RunAllDEStart
    \/ SingleDE
    \/ PathwayAnalysis
    \/ RunAllDEFinish

Spec == Init /\ [][Next]_vars

(***************************************************************************)
(* _impute_data(plot=...) called on its own, on the matrix as it is.       *)
(***************************************************************************)
\* group tokens that match sample columns only
SampleConfigs == {g \in WideConfigs : \A i \in 1..Len(g) : g[i] # TE}

InitImpute ==
    /\ columns = WideColumns
    /\ data \in [1..NumRows -> WideRows]
    /\ groups \in {g \in SampleConfigs : Len(g) <= MaxGroups}
    /\ pc = "Scaled"
    /\ InitObject
    /\ _calculate_missing_data(columns, data, groups).ok
    /\ missing_data_percentage = _calculate_missing_data(columns, data, groups).v
    /\ raw = data
    /\ earlier = NoEarlier
    /\ report = NoReport
    /\ impute_plot \in BOOLEAN
    /\ stageObj = NoStage
    /\ stageArg = <<>>
    /\ stageOut = <<>>
    /\ group_name = StrArg(<<>>)
    /\ resolved = NoCall

SpecImpute == InitImpute /\ [][ImputeGroup(impute_plot)]_vars

\* run(), then the report of the finished analysis
NextReport ==
    \/ Next
    \/ GenerateReport

SpecReport == Init /\ [][NextReport]_vars

(***************************************************************************)
(* _run_all_de_analysis called on its own, on a matrix the caller          *)
(* prepared: the object's inner methods are usable independently of run(). *)
(***************************************************************************)
NarrowColumns ==
    <<GeneNameCol, Label("A", "1"), Label("A", "2"), Label("B", "1"), Label("B", "2"),
      Label("C", "1")>>

NarrowRows ==
    { <<(<<"T", "P", "5", "3">>), 10, 12, 20, 22, 5>>,
      <<(<<"P">>),                 3,  3,  1,  1, NaN>>,
      <<(<<"K">>),                 1,  2,  2,  3, 2>>,
      <<NaNStr,                    1,  5,  9, 13, 0>>,
      <<(<<"N">>),               NaN,  4,  4,  4, 1>>,
      <<(<<"Q">>),                 0,  0,  3,  3, 3>>,
      <<(<<"E">>),                 3,  3,  4,  4, 7>> }

NarrowConfigs ==
    { <<TA, TB>>, <<TB, TA>>, <<TA, TC>>, <<TA, TB, TC>>, <<TA, TZ>>, <<TZ, TB>>,
      <<TA, TB, TC, T1>> }

InitDE ==
    /\ columns = NarrowColumns
    /\ data \in [1..NumRows -> NarrowRows]
    /\ groups \in {g \in NarrowConfigs : Len(g) <= MaxGroups}
    /\ pc = "Projected"
    /\ InitObject
    /\ Constructed
    /\ group_name = StrArg(<<>>)
    /\ resolved = NoCall

NextDE ==
    \/ RunAllDEStart
    \/ SingleDE
    \/ PathwayAnalysis
    \/ RunAllDEFinish

SpecDE == InitDE /\ [][NextDE]_vars

(***************************************************************************)
(* The pipeline run twice: a second object is built on a matrix equal to   *)
(* the one the first was built on, with the same configuration, once the   *)
(* first run() has returned or raised.  The files of the first run are     *)
(* still on disk.                                                          *)
(***************************************************************************)
TwiceRows ==
    { <<(<<"T", ";", "1">>)>> \o <<2, 2, 2, 2>> \o <<8, 8, 8, 8>> \o <<2, 2, 8, 8>>,
      <<(<<"P">>)>>           \o <<8, 8, 8, 8>> \o <<2, 2, 2, 2>> \o <<4, 4, 4, 4>>,
      <<(<<"K">>)>>           \o <<0, 4, 2, 2>> \o <<1, 8, 8, 8>> \o <<2, 2, 2, 2>>,
      <<(<<"M">>)>>           \o <<0, 0, 0, 2>> \o <<8, 8, 8, 2>> \o <<4, 2, 4, 2>> }

TwiceConfigs == { <<TA, TB>>, <<TA, TB, TC>>, <<TA, TZ>> }

InitTwice ==
    /\ columns = WideColumns
    /\ data \in [1..NumRows -> TwiceRows]
    /\ groups \in {g \in TwiceConfigs : Len(g) <= MaxGroups}
    /\ pc = "Init"
    /\ InitObject
    /\ p_value_threshold = 50
    /\ log_fold_change_threshold = 1
    /\ Constructed
    /\ group_name = StrArg(<<>>)
    /\ resolved = NoCall

\* the first run is over; AutoAnalysis(equal matrix, same configuration)
SecondRun ==
    /\ pc \in {"DEAnalysisComplete", "Aborted"}
    /\ ~earlier.done
    /\ earlier' = [done |-> TRUE, files |-> files, deCalls |-> deCalls, deReturns |-> deReturns]
    /\ data' = raw
    /\ pc' = "Init"
    /\ de_paths' = None
    /\ attrs' = {}
    /\ impIdx' = 1
    /\ pairIdx' = 1
    /\ sig_genes' = <<>>
    /\ error' = NoError
    /\ started' = <<>>
    /\ completed' = <<>>
    /\ deCalls' = <<>>
    /\ deReturns' = <<>>
    /\ enrichCalls' = <<>>
    /\ plotFailures' = <<>>
    /\ UNCHANGED <<config, resolver, bench, raw, files, report>>

NextTwice ==
    \/ Next
    \/ SecondRun

SpecTwice == InitTwice /\ [][NextTwice]_vars

\* run() called again on the same object once the first call has returned:
\* self.data is the frame the first call transformed in place, the
\* attributes stay assigned, and the loop variables of run() start anew
RunAgain ==
    /\ pc = "DEAnalysisComplete"
    /\ ~earlier.done
    /\ earlier' = [done |-> TRUE, files |-> files, deCalls |-> deCalls, deReturns |-> deReturns]
    /\ pc' = "Init"
    /\ impIdx' = 1
    /\ pairIdx' = 1
    /\ sig_genes' = <<>>
    /\ error' = NoError
    /\ started' = <<>>
    /\ completed' = <<>>
    /\ deCalls' = <<>>
    /\ deReturns' = <<>>
    /\ enrichCalls' = <<>>
    /\ plotFailures' = <<>>
    /\ UNCHANGED <<config, resolver, bench, raw, report, data, de_paths, attrs, files>>

NextAgain ==
    \/ Next
    \/ RunAgain

SpecAgain == InitTwice /\ [][NextAgain]_vars

(***************************************************************************)
(* _run_all_de_analysis on group names of several characters, with and     *)
(* without the character "_" that the pair keys are joined by.             *)
(***************************************************************************)
TAuB == <<"A", "_", "B">>
TBuA == <<"B", "_", "A">>
TAB == <<"A", "B">>
TBA == <<"B", "A">>

UnderscoreColumns == <<GeneNameCol, TAuB \o T1, TAuB \o <<"2">>, TBuA \o T1, TBuA \o <<"2">> >>
PlainColumns == <<GeneNameCol, TAB \o T1, TAB \o <<"2">>, TBA \o T1, TBA \o <<"2">> >>

KeyRows ==
    { <<(<<"K">>), 2, 2, 8, 8>>,
      <<(<<"P">>), 8, 8, 2, 2>>,
      <<(<<"T">>), 4, 4, 4, 4>>,
      <<(<<"Q">>), 1, 3, 2, 6>> }

UnderscoreConfigs == { <<TAuB, TA, TBuA>>, <<TBuA, TA, TAuB>>, <<TAuB, TBuA>>, <<TA, TBuA>> }
PlainConfigs == { <<TAB, TA, TBA>>, <<TBA, TA, TAB>>, <<TAB, TBA>>, <<TA, TBA>> }

InitKeys ==
    /\ \/ /\ columns = UnderscoreColumns
          /\ groups \in {g \in UnderscoreConfigs : Len(g) <= MaxGroups}
       \/ /\ columns = PlainColumns
          /\ groups \in {g \in PlainConfigs : Len(g) <= MaxGroups}
    /\ data \in [1..NumRows -> KeyRows]
    /\ pc = "Projected"
    /\ InitObject
    /\ Constructed
    /\ group_name = StrArg(<<>>)
    /\ resolved = NoCall

SpecKeys == InitKeys /\ [][NextDE]_vars

(***************************************************************************)
(* _get_group_cols called on its own.                                      *)
(***************************************************************************)
ResolveLabels == {GeneNameCol, Label("A", "1"), Label("A", "2"), Label("B", "1")}
ResolveTokens == {TA, TB, T1, TZ, TE, <<"A", "1">>, <<".">>, <<"A", ".">>, <<>>}
ResolveListTokens == {TA, TB, T2}
\* longest token list handed to the resolver
MaxTokens == 2

ResolveArgs ==
    {StrArg(t) : t \in ResolveTokens}
        \cup {ListArg(l) : l \in SeqsUpTo(ResolveListTokens, MaxTokens)}

InitResolve ==
    /\ columns \in SeqsUpTo(ResolveLabels, MaxCols)
    /\ group_name \in ResolveArgs
    /\ resolved = NoCall
    /\ data = <<[c \in 1..Len(columns) |-> 1]>>
    /\ groups = <<>>
    /\ Constructed
    /\ pc = "resolve"
    /\ p_value_threshold = 50
    /\ log_fold_change_threshold = 1
    /\ de_paths = None
    /\ attrs = {}
    /\ files = EmptyMap
    /\ impIdx = 1
    /\ pairIdx = 1
    /\ sig_genes = <<>>
    /\ error = NoError
    /\ started = <<>>
    /\ completed = <<>>
    /\ deCalls = <<>>
    /\ deReturns = <<>>
    /\ enrichCalls = <<>>
    /\ plotFailures = <<>>

GetGroupCols ==
    /\ pc = "resolve"
    /\ resolved' = [done |-> TRUE, cols |-> _get_group_cols(columns, group_name)]
    /\ pc' = "resolved"
    /\ UNCHANGED <<config, history, bench, group_name, data, de_paths, attrs, files, impIdx, pairIdx,
                   sig_genes, error, started, completed, logs>>

NextResolve == GetGroupCols

SpecResolve == InitResolve /\ [][NextResolve]_vars

(***************************************************************************)
(* The constructor on its own: AutoAnalysis(data, groups, ...).            *)
(***************************************************************************)
\* a matrix of 20 features and 10 samples with 30 zero cells
ExampleColumns ==
    <<GeneNameCol>> \o [k \in 1..10 |->
        Label(<<"A", "B">>[((k - 1) \div 5) + 1], <<"1", "2", "3", "4", "5">>[((k - 1) % 5) + 1])]

ExampleData ==
    [r \in 1..20 |-> <<(<<"g">>)>> \o [k \in 1..10 |-> IF r <= 10 /\ k \in {1, 2, 6} THEN 0 ELSE 5]]

ConstructConfigs == NarrowConfigs \cup {<<TZ>>, <<TA, TE>>, <<TC>>}

InitConstruct ==
    /\ \/ /\ columns = NarrowColumns
          /\ data \in [1..NumRows -> NarrowRows]
          /\ groups \in {g \in ConstructConfigs : Len(g) <= MaxGroups}
       \/ /\ columns = ExampleColumns
          /\ data = ExampleData
          /\ groups \in {<<TA, TB>>, <<TB>>}
    /\ pc = "new"
    /\ InitObject
    /\ missing_data_percentage = FracNaN
    /\ raw = data
    /\ earlier = NoEarlier
    /\ report = NoReport
    /\ impute_plot = TRUE
    /\ stageObj = NoStage
    /\ stageArg = <<>>
    /\ stageOut = <<>>
    /\ group_name = StrArg(<<>>)
    /\ resolved = NoCall

\* __init__: the attributes are assigned in order; the ZeroDivisionError of
\* _calculate_missing_data leaves the constructor
Construct ==
    /\ pc = "new"
    /\ LET res == _calculate_missing_data(columns, data, groups)
       IN  IF res.ok
           THEN /\ missing_data_percentage' = res.v
                /\ pc' = "Init"
                /\ UNCHANGED error
           ELSE /\ error' = [kind |-> res.err, at |-> "__init__"]
                /\ pc' = "NotConstructed"
                /\ UNCHANGED missing_data_percentage
    /\ UNCHANGED <<columns, groups, p_value_threshold, log_fold_change_threshold, impute_plot,
                   resolver,
                   history, bench, data, de_paths, attrs, files, impIdx, pairIdx, sig_genes,
                   started, completed, logs>>

NextConstruct == Construct

SpecConstruct == InitConstruct /\ [][NextConstruct]_vars

(***************************************************************************)
(* A stage object used on its own: fit, transform and fit_transform called *)
(* on a block, on a new object or on one that was fitted on other data.    *)
(***************************************************************************)
StageKinds == {"Log2Scaler", "KNN_Imputer", "MinMaxScaler", "PowerScaler", "PCA"}

\* what the installed pandas makes of np.min(frame); it matters to
\* MinMaxScaler only
Builds(kind) ==
    IF kind = "MinMaxScaler" THEN {"min_by_column", "min_over_frame"} ELSE {"min_over_frame"}

StageRowSet ==
    { <<4, 2, 8>>, <<0, 2, NaN>>, <<0, 0, 4>>, <<2, 2, 2>>, <<1, 0, 1>>, <<NaN, 8, 0>> }

StageWidths == {1, 2, 3}

StageBlocks ==
    UNION {{[r \in 1..n |-> SubSeq(f[r], 1, w)] : f \in [1..n -> StageRowSet], w \in StageWidths} :
               n \in 1..NumRows}

\* the block an object was fitted on before
StaleBlock(w) == <<SubSeq(<<16, 1, 16>>, 1, w), SubSeq(<<1, 16, 1>>, 1, w)>>

\* a frame of floats, cell by cell
FracBlock(block) ==
    [r \in DOMAIN block |-> [k \in DOMAIN block[r] |-> FracOfInt(block[r][k])]]

\* the block as the stage class receives it
StageInput(kind, block) == IF kind = "MinMaxScaler" THEN FracBlock(block) ELSE block

\* no AutoAnalysis object is running
NoRun ==
    /\ columns = <<>>
    /\ data = <<>>
    /\ groups = <<>>
    /\ p_value_threshold = 50
    /\ log_fold_change_threshold = 1
    /\ missing_data_percentage = FracNaN
    /\ de_paths = None
    /\ attrs = {}
    /\ files = EmptyMap
    /\ impIdx = 1
    /\ pairIdx = 1
    /\ sig_genes = <<>>
    /\ error = NoError
    /\ started = <<>>
    /\ completed = <<>>
    /\ deCalls = <<>>
    /\ deReturns = <<>>
    /\ enrichCalls = <<>>
    /\ plotFailures = <<>>
    /\ group_name = StrArg(<<>>)
    /\ resolved = NoCall
    /\ raw = <<>>
    /\ earlier = NoEarlier
    /\ report = NoReport
    /\ impute_plot = TRUE

InitStage ==
    /\ NoRun
    /\ pc = "stage_new"
    /\ stageOut = <<>>
    /\ \E kind \in StageKinds, block \in StageBlocks, fresh \in BOOLEAN :
           \E build \in Builds(kind) :
               LET st == IF fresh THEN NotFitted
                         ELSE Stage_fit(kind, build, NotFitted,
                                        StageInput(kind, StaleBlock(NCols(block)))).fitted
               IN  /\ stageObj = [kind |-> kind, build |-> build, before |-> st, fitted |-> st]
                   /\ stageArg = StageInput(kind, block)

pipeline ==
    <<config, resolver, history, data, de_paths, attrs, files, impIdx, pairIdx, sig_genes,
      error, started, completed, logs>>

\* stage.fit(data)
StageFit ==
    /\ pc = "stage_new"
    /\ LET f == Stage_fit(stageObj.kind, stageObj.build, stageObj.fitted, stageArg)
       IN  /\ stageObj' = [stageObj EXCEPT !.fitted = f.fitted]
           /\ IF f.err = "none"
              THEN pc' = "stage_fitted" /\ UNCHANGED stageOut
              ELSE pc' = "stage_done" /\ stageOut' = <<Raise(f.err)>>
    /\ UNCHANGED <<pipeline, stageArg>>

\* stage.transform(data), on the data the object was just fitted on
StageTransform ==
    /\ pc = "stage_fitted"
    /\ stageOut' = <<Stage_transform(stageObj.kind, stageObj.fitted, stageArg)>>
    /\ pc' = "stage_done"
    /\ UNCHANGED <<pipeline, stageObj, stageArg>>

\* stage.fit_transform(data)
StageFitTransform ==
    /\ pc = "stage_new"
    /\ LET res == Stage_fit_transform(stageObj.kind, stageObj.build, stageObj.fitted, stageArg)
       IN  /\ stageObj' = [stageObj EXCEPT !.fitted = res.fitted]
           /\ stageOut' = <<res.out>>
    /\ pc' = "stage_ft"
    /\ UNCHANGED <<pipeline, stageArg>>

\* stage.fit_transform(out), out being what fit_transform(data) returned
StageFitTransformAgain ==
    /\ pc = "stage_ft"
    /\ stageOut[1].ok
    /\ LET res == Stage_fit_transform(stageObj.kind, stageObj.build, stageObj.fitted,
                                      stageOut[1].v)
       IN  /\ stageObj' = [stageObj EXCEPT !.fitted = res.fitted]
           /\ stageOut' = Append(stageOut, res.out)
    /\ pc' = "stage_again"
    /\ UNCHANGED <<pipeline, stageArg>>

NextStage ==
    \/ StageFit
    \/ StageTransform
    \/ StageFitTransform
    \/ StageFitTransformAgain

SpecStage == InitStage /\ [][NextStage]_vars

(***************************************************************************)
(* A scaler used on its own, on blocks with positive, zero and negative    *)
(* cells.                                                                  *)
(***************************************************************************)
ScaleRowSet == { <<8, 0, -4>>, <<-1, 1, 2>>, <<0, 4, 1>>, <<2, -2, 0>> }

ScaleBlocks ==
    UNION {{[r \in 1..n |-> SubSeq(f[r], 1, w)] : f \in [1..n -> ScaleRowSet], w \in StageWidths} :
               n \in 1..NumRows}

InitScale ==
    /\ NoRun
    /\ pc = "stage_new"
    /\ stageOut = <<>>
    /\ \E kind \in ScalerKinds, block \in ScaleBlocks, fresh \in BOOLEAN :
           LET st == IF fresh THEN NotFitted
                     ELSE Stage_fit(kind, "min_over_frame", NotFitted,
                                    StaleBlock(NCols(block))).fitted
           IN  /\ stageObj = [kind |-> kind, build |-> "min_over_frame", before |-> st,
                              fitted |-> st]
               /\ stageArg = block

SpecScale == InitScale /\ [][NextStage]_vars

(***************************************************************************)
(* Properties.                                                             *)
(***************************************************************************)
IsPrefix(s, t) == Len(s) <= Len(t) /\ \A i \in 1..Len(s) : s[i] = t[i]

Distinct(s) == \A i, j \in 1..Len(s) : i # j => s[i] # s[j]

\* the order of the stages the design fixes
StageOrder ==
    <<"ensure_dirs", "clean_ids", "scale", "impute", "normalise", "persist", "project", "de">>

StagesInOrder ==
    /\ IsPrefix(started, StageOrder)
    /\ IsPrefix(completed, started)
    /\ Len(started) <= Len(completed) + 1
    /\ (pc = "DEAnalysisComplete" => completed = StageOrder)

CallsOf(g1, g2) == {k \in 1..Len(deCalls) : deCalls[k] = <<g1, g2>>}

\* C2: for distinct group names every single-pair call is made for an
\* earlier group of the list as group 1 and a later one as group 2, never for
\* a group with itself, and no pair is called twice; when
\* _run_all_de_analysis has returned, every unordered pair of the n groups
\* has been called exactly once, C(n,2) calls in total.
C2_EveryPairOnce ==
    Distinct(groups) =>
        LET n == Len(groups)
        IN  /\ \A k \in 1..Len(deCalls) :
                   /\ deCalls[k][1] # deCalls[k][2]
                   /\ \E i, j \in 1..n :
                          i < j /\ deCalls[k] = <<groups[i], groups[j]>>
            /\ \A i, j \in 1..n : i < j => Cardinality(CallsOf(groups[i], groups[j])) <= 1
            /\ (pc = "DEAnalysisComplete" =>
                   /\ 2 * Len(deCalls) = n * (n - 1)
                   /\ \A i, j \in 1..n :
                          i < j => Cardinality(CallsOf(groups[i], groups[j])) = 1)

C2_Witness ==
    /\ pc = "DEAnalysisComplete"
    /\ Distinct(groups)
    /\ Len(groups) = 3
    /\ Len(deCalls) = 3

\* the columns of a group, and the sum of a row over them
GroupCols(g) == ColIdxs(columns, _get_group_cols(columns, StrArg(g)))
RowSum(r, cs) == SumSeq([k \in 1..Len(cs) |-> data[r][cs[k]]])

\* the table persisted for the k-th single-pair call, if it was written
TableWritten(k) == DEOutput(deCalls[k][1], deCalls[k][2]) \in DOMAIN files
TableOf(k) == files[DEOutput(deCalls[k][1], deCalls[k][2])]

\* C3: for every pair (g1, g2) and every row of its persisted table,
\* fold_change = mean of the row over g2's columns - mean of the row over
\* g1's columns (stated without division: multiplied by both column counts).
C3_FoldChangeSecondMinusFirst ==
    \A k \in 1..Len(deCalls) :
        TableWritten(k) =>
            LET cs1 == GroupCols(deCalls[k][1])
                cs2 == GroupCols(deCalls[k][2])
                t   == TableOf(k)
            IN  \A i \in 1..Len(t) :
                    t[i].log_fold_change * Len(cs1) * Len(cs2)
                        = FCScale(columns)
                            * (Len(cs1) * RowSum(t[i].row, cs2) - Len(cs2) * RowSum(t[i].row, cs1))

C3_Witness ==
    \E k \in 1..Len(deCalls) :
        /\ TableWritten(k)
        /\ \E i \in 1..Len(TableOf(k)) : TableOf(k)[i].log_fold_change > 0
        /\ \E i \in 1..Len(TableOf(k)) : TableOf(k)[i].log_fold_change < 0

\* the rows of a table that pass both strict thresholds
PassesThresholds(rec) ==
    /\ rec.p_value < p_value_threshold
    /\ Abs(rec.log_fold_change) > log_fold_change_threshold * FCScale(columns)

\* C4: for every single-pair call that returned, a feature key is in the
\* returned list if and only if a row of the pair's table with that key has
\* p_value < p_threshold and |fold_change| > fc_threshold, both strict.
C4_SignificantIffBothStrict ==
    \A k \in 1..Len(deReturns) :
        (deReturns[k].raised = "none" /\ TableWritten(k)) =>
            LET t == TableOf(k)
            IN  /\ \A i \in 1..Len(t) :
                       PassesThresholds(t[i]) => t[i].gene \in Range(deReturns[k].sig)
                /\ \A key \in Range(deReturns[k].sig) :
                       \E i \in 1..Len(t) : t[i].gene = key /\ PassesThresholds(t[i])

\* a returned call with a row at each threshold exactly, neither significant
C4_Witness ==
    \E k \in 1..Len(deReturns) :
        /\ deReturns[k].raised = "none"
        /\ TableWritten(k)
        /\ \E i \in 1..Len(TableOf(k)) :
               /\ TableOf(k)[i].p_value = p_value_threshold
               /\ Abs(TableOf(k)[i].log_fold_change)
                      > log_fold_change_threshold * FCScale(columns)
               /\ TableOf(k)[i].gene \notin Range(deReturns[k].sig)
        /\ \E i \in 1..Len(TableOf(k)) :
               /\ TableOf(k)[i].p_value < p_value_threshold
               /\ Abs(TableOf(k)[i].log_fold_change)
                      = log_fold_change_threshold * FCScale(columns)
               /\ TableOf(k)[i].gene \notin Range(deReturns[k].sig)

EnrichCallsOf(key) == {c \in 1..Len(enrichCalls) : enrichCalls[c].key = key}

\* the single-pair call k has returned and its enrichment step is not pending
PairSettled(k) ==
    /\ deReturns[k].raised = "none"
    /\ ~(pc = "DE_pathway" /\ k = Len(deReturns))

\* C5: for every pair whose significant list is empty the enrichment
\* service is not called and no pathway table, pathway figure or pathway_fig
\* entry exists for the pair; for every pair whose list is non-empty the
\* service is called exactly once, with that list.
C5_EnrichOnlyNonEmpty ==
    \A k \in 1..Len(deReturns) :
        LET g1  == deCalls[k][1]
            g2  == deCalls[k][2]
            key == deReturns[k].key
        IN  /\ (deReturns[k].raised = "none" /\ deReturns[k].sig = <<>>) =>
                   /\ EnrichCallsOf(key) = {}
                   /\ "pathway_fig" \notin DOMAIN de_paths.m[key]
                   /\ PathwayFig(g1, g2) \notin DOMAIN files
                   /\ PathwayOutput(g1, g2) \notin DOMAIN files
            /\ (PairSettled(k) /\ deReturns[k].sig # <<>>) =>
                   /\ Cardinality(EnrichCallsOf(key)) = 1
                   /\ \A c \in EnrichCallsOf(key) :
                          enrichCalls[c].gene_list = deReturns[k].sig

C5_Witness ==
    /\ pc = "DEAnalysisComplete"
    /\ \E k \in 1..Len(deReturns) :
           deReturns[k].sig = <<>> /\ EnrichCallsOf(deReturns[k].key) = {}
    /\ \E k \in 1..Len(deReturns) :
           deReturns[k].sig # <<>> /\ Cardinality(EnrichCallsOf(deReturns[k].key)) = 1

\* C6: if the enrichment service call fails for one pair, run() is not
\* aborted: the remaining pairs are still analysed and run() returns.
C6_EnrichmentFailureIsolated ==
    (\E c \in 1..Len(enrichCalls) : enrichCalls[c].raised) =>
        /\ pc # "Aborted"
        /\ (pc = "DEAnalysisComplete" => Len(deCalls) = Len(Pairs))

\* a group of the k-th single-pair call resolves to no column
ZeroColumns(k) == GroupCols(deCalls[k][1]) = <<>> \/ GroupCols(deCalls[k][2]) = <<>>

\* C7: if either group of a pair resolves to zero columns, the single-pair
\* analysis ends in a StatisticalComputationError (a failure to write the
\* table aside), and nothing is persisted for the pair.
C7_ZeroColumnsIsStatisticalError ==
    \A k \in 1..Len(deReturns) :
        (ZeroColumns(k) /\ deReturns[k].raised # "OSError") =>
            /\ deReturns[k].raised = "StatisticalComputationError"
            /\ ~deReturns[k].persisted

\* the tokens of an argument of _get_group_cols
TokensOf(arg) == IF arg.isStr THEN {arg.v} ELSE Range(arg.v)

\* C8: for any column list and any token (or non-empty token list),
\* _get_group_cols returns exactly the columns whose label contains the token
\* (one of the tokens) as a substring, each once, in column order, and the
\* empty list when no label does.
C8_ResolveIsSubstringFilter ==
    (resolved.done /\ (group_name.isStr \/ group_name.v # <<>>)) =>
        resolved.cols
            = SelectSeq(columns,
                        LAMBDA c : \E t \in TokensOf(group_name) : StrContainsLiteral(c, t))

DEArtifacts ==
    UNION {{DEOutput(g1, g2), VolcanoFig(g1, g2), PathwayOutput(g1, g2), PathwayFig(g1, g2)} :
               g1 \in Range(groups), g2 \in Range(groups)}

\* C9: if the scale, impute or normalise stage raises, run() ends at that
\* stage: it is the last stage entered, the matrix is not persisted, no
\* single-pair analysis or enrichment call is made, no DE artifact exists
\* and de_paths is still None.
C9_PreprocessingFailureAborts ==
    error.at \in {"scale", "impute", "normalise"} =>
        /\ pc = "Aborted"
        /\ started # <<>> /\ started[Len(started)] = error.at
        /\ deCalls = <<>>
        /\ enrichCalls = <<>>
        /\ de_paths = None
        /\ DOMAIN files \cap (DEArtifacts \cup {MatrixPath, PcaPath}) = {}

\* the impute stage raised on its second group, after the first was imputed
C9_Witness ==
    /\ pc = "Aborted"
    /\ error.at = "impute"
    /\ impIdx = 2
    /\ de_paths = None

\* C10: a rendering failure of any plot drawn during the run, the pathway
\* bar plot included, reaches the caller of run() as an error: run() does not
\* go on after it.
C10_PlotFailureSurfaced ==
    plotFailures # <<>> => pc = "Aborted"

\* C11: from the start of the DE stage on, no step of _run_all_de_analysis
\* (its start, a single-pair analysis, a pathway analysis, its return)
\* changes self.data: cells, column set and row order stay as they were.
C11_DataFrozenDuringDE ==
    [][(pc \in {"Projected", "DE_pair", "DE_pathway"}) =>
          (data' = data /\ columns' = columns)]_vars

\* a finished DE stage with several pairs, an enrichment, and a table that
\* lost a row of the matrix
C11_Witness ==
    /\ pc = "DEAnalysisComplete"
    /\ Len(deCalls) >= 2
    /\ enrichCalls # <<>>
    /\ \E k \in 1..Len(deCalls) : TableWritten(k) /\ Len(TableOf(k)) < Len(data)
    /\ data = raw

\* the table the k-th single-pair call of this run wrote, and the one the
\* j-th call of the earlier run wrote
EarlierTable(j) == earlier.files[DEOutput(earlier.deCalls[j][1], earlier.deCalls[j][2])]

KNNReturned == stageObj.kind = "KNN_Imputer" /\ pc = "stage_ft"

\* a row of the input without a zero and without a missing cell
FullRow(r) == \A k \in DOMAIN stageArg[r] : stageArg[r][k] # 0 /\ stageArg[r][k] # NaN

\* C13: when the input of KNN_Imputer.fit_transform has a row without a
\* zero and without a missing cell, the call returns, and its output at every
\* such row equals the input row: not dropped, no cell changed.
C13_FullRowsUntouched ==
    (KNNReturned /\ \E r \in DOMAIN stageArg : FullRow(r)) =>
        /\ stageOut[1].ok
        /\ \A r \in DOMAIN stageArg : FullRow(r) => stageOut[1].v[r] = stageArg[r]

\* a full row next to a row in which a cell was imputed
C13_Witness ==
    /\ KNNReturned
    /\ stageOut[1].ok
    /\ \E r \in DOMAIN stageArg : FullRow(r) /\ Len(stageArg[r]) >= 2
    /\ \E r \in DOMAIN stageArg : \E k \in DOMAIN stageArg[r] :
           stageArg[r][k] = 0 /\ stageOut[1].v[r][k] \notin {0, NaN}

\* MinMaxScaler.fit_transform(stageArg) has returned
MinMaxReturned == stageObj.kind = "MinMaxScaler" /\ pc \in {"stage_ft", "stage_again"}

\* the distinct values of a block of floats
DistinctValues(block) ==
    {block[r][k] : r \in DOMAIN block, k \in 1..NCols(block)} \ {FracNaN}

InUnitInterval(a) == a.d > 0 /\ 0 <= a.n /\ a.n <= a.d

\* C14: for an input block with at least two distinct values, every value
\* of MinMaxScaler.fit_transform's output lies in [0,1] (a cell missing in
\* the input aside), and fit_transform applied to that output returns it
\* unchanged.
C14_MinMaxUnitRangeIdempotent ==
    (MinMaxReturned /\ Cardinality(DistinctValues(stageArg)) >= 2) =>
        /\ stageOut[1].ok
        /\ \A r \in DOMAIN stageArg : \A k \in 1..NCols(stageArg) :
               ~IsFracNaN(stageArg[r][k]) => InUnitInterval(stageOut[1].v[r][k])
        /\ (pc = "stage_again" => stageOut[2] = stageOut[1])

\* the columns of the raw matrix matched by a group token, each once
MatchedColumns ==
    {c \in 1..Len(columns) : \E i \in 1..Len(groups) : StrContains(columns[c], groups[i])}

ZeroCells ==
    {rc \in (DOMAIN raw) \X MatchedColumns :
        columns[rc[2]] # GeneNameCol /\ raw[rc[1]][rc[2]] = 0}

FitThenTransform ==
    LET f == Stage_fit(stageObj.kind, stageObj.build, stageObj.before, stageArg)
    IN  [fitted |-> f.fitted,
         out    |-> IF f.err # "none" THEN Raise(f.err)
                    ELSE Stage_transform(stageObj.kind, f.fitted, stageArg)]

\* C16: for a stage of any category, new or fitted before on other data,
\* fit_transform(data) returns (or raises) what fit(data) followed by
\* transform(data) does and leaves the same fitted state; the one-step forms
\* of fit_transform used by the pipeline return the same value.
C16_FitTransformIsFitThenTransform ==
    /\ (pc \in {"stage_ft", "stage_done"}) =>
           /\ stageOut[1] = FitThenTransform.out
           /\ stageObj.fitted = FitThenTransform.fitted
    /\ (pc = "stage_ft" /\ stageObj.kind = "Log2Scaler") =>
           stageOut[1] = Ok(Log2Scaler_fit_transform(stageArg))
    /\ (pc = "stage_ft" /\ stageObj.kind = "KNN_Imputer") =>
           stageOut[1] = KNN_Imputer_fit_transform(stageArg, NCols(stageArg))
    /\ (pc = "stage_ft" /\ stageObj.kind = "PowerScaler") =>
           stageOut[1] = PowerScaler_fit_transform(stageArg, NCols(stageArg))

\* fit_transform has returned a value on an object that was fitted on other
\* data before, and has refitted it
C16_Witness ==
    /\ pc = "stage_ft"
    /\ stageObj.before # NotFitted
    /\ stageObj.fitted # stageObj.before
    /\ stageOut[1].ok
    /\ stageOut[1] # Stage_transform(stageObj.kind, stageObj.before, stageArg)

\* the columns that match no group token
UnmatchedColumns == (1..Len(columns)) \ MatchedColumns

\* C17: a step of the scale, impute or normalise stage leaves the column
\* list, the row index and its order as they were, and changes no cell of a
\* column that matches no group token, the feature-identifier column
\* included.
C17_StagesKeepShapeAndOtherColumns ==
    [][(pc \in {"IdentifiersCleaned", "Scaled", "Imputed"}) =>
          /\ columns' = columns
          /\ DOMAIN data' = DOMAIN data
          /\ \A r \in DOMAIN data :
                 /\ DOMAIN data'[r] = DOMAIN data[r]
                 /\ \A c \in UnmatchedColumns : data'[r][c] = data[r][c]]_vars

\* the three stages have run and changed group columns, next to sample
\* columns of no group
C17_Witness ==
    /\ pc = "Normalised"
    /\ Cardinality(UnmatchedColumns) >= 2
    /\ \E r \in DOMAIN data : \E c \in MatchedColumns : data[r][c] # raw[r][c]
    /\ \A r \in DOMAIN data : \A c \in UnmatchedColumns \ {GeneIdx} : data[r][c] = raw[r][c]

\* the row r of the matrix as the k-th single-pair call computes it
ComputedRow(k, r) == DERow(columns, data, r, GroupCols(deCalls[k][1]), GroupCols(deCalls[k][2]))

ComputedNonNaN(k, r) ==
    ~IsNaN(ComputedRow(k, r).log_fold_change) /\ ~IsNaN(ComputedRow(k, r).p_value)

InTable(k, r) == \E i \in 1..Len(TableOf(k)) : TableOf(k)[i].row = r

\* C18: the persisted table of a pair holds exactly the rows of the matrix
\* whose fold_change and p_value are both non-NaN: every such row is in the
\* table, and no row with a NaN computed column is.
C18_DropsExactlyNaNComputedRows ==
    \A k \in 1..Len(deCalls) :
        TableWritten(k) =>
            \A r \in 1..Len(data) : InTable(k, r) <=> ComputedNonNaN(k, r)

\* a is b with some of its elements left out, the others in b's order
RECURSIVE IsSubsequence(_, _)
IsSubsequence(a, b) ==
    IF a = <<>> THEN TRUE
    ELSE IF b = <<>> THEN FALSE
    ELSE IF Head(a) = Head(b) THEN IsSubsequence(Tail(a), Tail(b))
    ELSE IsSubsequence(a, Tail(b))

\* the feature keys of the k-th call's persisted table, in the table's order
TableKeys(k) == [i \in 1..Len(TableOf(k)) |-> TableOf(k)[i].gene]

\* C19: the rows of every persisted per-pair table stand in the order of
\* their rows in the matrix (the analysis never re-sorts), each row carrying
\* the feature key of its matrix row, and the significant list a call
\* returns is a subsequence of its table's feature keys.
C19_MatrixRowOrderKept ==
    \A k \in 1..Len(deCalls) :
        TableWritten(k) =>
            /\ \A i, j \in 1..Len(TableOf(k)) :
                   i < j => TableOf(k)[i].row < TableOf(k)[j].row
            /\ \A i \in 1..Len(TableOf(k)) :
                   TableOf(k)[i].gene = data[TableOf(k)[i].row][GeneIdx]
            /\ (k <= Len(deReturns) /\ deReturns[k].raised = "none") =>
                   IsSubsequence(deReturns[k].sig, TableKeys(k))

\* a call returned a significant key from a table of several rows with
\* different keys, one of them not significant
C19_Witness ==
    \E k \in 1..Len(deReturns) :
        /\ deReturns[k].raised = "none"
        /\ TableWritten(k)
        /\ Len(TableOf(k)) >= 2
        /\ TableOf(k)[1].gene # TableOf(k)[2].gene
        /\ Len(deReturns[k].sig) >= 1
        /\ Len(deReturns[k].sig) < Len(TableOf(k))

\* a call of a KNN_Imputer on stageArg has returned a frame
KNNOutput ==
    /\ stageObj.kind = "KNN_Imputer"
    /\ pc \in {"stage_ft", "stage_done"}
    /\ stageOut[1].ok

\* the cells of input row r that are neither zero nor missing
PresentCells(r) == {k \in DOMAIN stageArg[r] : stageArg[r][k] # 0 /\ stageArg[r][k] # NaN}

\* input row r reaches the threshold: non-missing cells >= sample_threshold x columns
ReachesThreshold(r) ==
    Cardinality(PresentCells(r)) * SampleThresholdDen >= SampleThresholdNum * Len(stageArg[r])

\* C20: in the frame a KNN_Imputer returns, with zero counted as missing,
\* the rows are those of the input in the input's order; a row with at
\* least sample_threshold x columns non-missing cells (1/2 by default) is
\* kept, its present cells as they were and no cell missing; every other row
\* is dropped, all its cells missing.
C20_KNNKeepsRowsAtThreshold ==
    KNNOutput =>
        /\ DOMAIN stageOut[1].v = DOMAIN stageArg
        /\ \A r \in DOMAIN stageArg :
               /\ DOMAIN stageOut[1].v[r] = DOMAIN stageArg[r]
               /\ IF ReachesThreshold(r)
                  THEN \A k \in DOMAIN stageArg[r] :
                           /\ stageOut[1].v[r][k] # NaN
                           /\ k \in PresentCells(r) => stageOut[1].v[r][k] = stageArg[r][k]
                  ELSE \A k \in DOMAIN stageArg[r] : stageOut[1].v[r][k] = NaN

\* a row with an observed cell was dropped, below a row that was kept
C20_Witness ==
    /\ KNNOutput
    /\ \E r \in DOMAIN stageArg : ~ReachesThreshold(r) /\ PresentCells(r) # {}
    /\ \E r \in DOMAIN stageArg : ReachesThreshold(r) /\ r < Len(stageArg)

\* a scaler has returned the transform of stageArg
ScalerReturned ==
    /\ stageObj.kind \in ScalerKinds
    /\ pc \in {"stage_ft", "stage_done"}
    /\ stageOut[1].ok

\* C21: every scaler returns a finite number for every input number,
\* positive, zero or negative; the log2, log10 and natural-log scalers
\* return 0 for a non-positive input.
C21_ScalersReturnFiniteNumbers ==
    ScalerReturned =>
        \A r \in DOMAIN stageArg : \A k \in DOMAIN stageArg[r] :
            ~IsNaN(stageArg[r][k]) =>
                /\ IsFinite(stageOut[1].v[r][k])
                /\ (stageObj.kind \in {"Log2Scaler", "Log10Scaler", "LogScaler"}
                        /\ stageArg[r][k] <= 0) => stageOut[1].v[r][k] = 0

\* C22: when generate_report is called after a run() that completed, every
\* attribute it reads was assigned by the run, and every de_paths entry it
\* looks up, volcano_fig and pathway_fig of each pair it iterates over, was
\* recorded for that pair, also for a pair without significant genes.
C22_ReportReadsOnlyRecordedEntries ==
    report.state # "none" =>
        /\ report.err # "AttributeError"
        /\ \A i \in 1..Len(report.lookups) :
               /\ report.lookups[i].key \in DOMAIN de_paths.m
               /\ report.lookups[i].field \in DOMAIN de_paths.m[report.lookups[i].key]

\* the paths recorded in de_paths
RecordedPaths ==
    UNION {{de_paths.m[key][field] : field \in DOMAIN de_paths.m[key]} : key \in DOMAIN de_paths.m}

\* C23: in every reachable state, every path recorded in de_paths is the
\* path of a figure that was written: a volcano_fig or pathway_fig entry
\* exists only if the figure was produced, also after a failure of the
\* pair's DE analysis, enrichment call or plotting.
C23_RecordedPathsWereWritten ==
    \A path \in RecordedPaths : path \in DOMAIN files

\* the key and the four file paths of a pair
PairNames(p) ==
    LET g1 == groups[p[1]]
        g2 == groups[p[2]]
    IN  <<PairKey(g1, g2), VolcanoFig(g1, g2), DEOutput(g1, g2), PathwayFig(g1, g2),
          PathwayOutput(g1, g2)>>

\* different pairs share no key and no path
PairNamesDisjoint ==
    \A i, j \in 1..Len(Pairs) :
        i # j => \A n \in 1..5 : PairNames(Pairs[i])[n] # PairNames(Pairs[j])[n]

\* what a single-pair call wrote and recorded is still there
NothingOverwritten ==
    \A k \in 1..Len(deReturns) :
        /\ de_paths.m[PairKey(deCalls[k][1], deCalls[k][2])]["volcano_fig"]
               = VolcanoFig(deCalls[k][1], deCalls[k][2])
        /\ deReturns[k].persisted =>
               /\ TableWritten(k)
               /\ TableOf(k) = DETable(columns, data, deCalls[k][1], deCalls[k][2])

\* C24 as stated: for pairwise distinct group names, different pairs get
\* different de_paths keys and different file paths, and no pair's table or
\* map entry is overwritten by another pair's.
C24_DistinctNamesDistinctKeys ==
    Distinct(groups) => (PairNamesDisjoint /\ NothingOverwritten)

NoUnderscore == \A i \in 1..Len(groups) : "_" \notin Range(groups[i])

\* C24 as amended: the same, for pairwise distinct group names made of
\* letters and digits only, so that no name contains "_".
C24_PlainNamesDistinctKeys ==
    (Distinct(groups) /\ NoUnderscore) => (PairNamesDisjoint /\ NothingOverwritten)

\* three pairs of plain names were analysed and two of their tables differ
C24_Witness ==
    /\ pc = "DEAnalysisComplete"
    /\ Distinct(groups) /\ NoUnderscore
    /\ Len(deReturns) = 3
    /\ \A k \in 1..3 : deReturns[k].persisted
    /\ TableOf(1) # TableOf(3)
    /\ PairKeyNoSeparator(deCalls[1][1], deCalls[1][2])
           = PairKeyNoSeparator(deCalls[3][1], deCalls[3][2])

\* the cells of row r, among the columns cs, that hold a number other than
\* zero in the raw matrix
RawPresent(r, cs) == {k \in 1..Len(cs) : raw[r][cs[k]] # 0 /\ raw[r][cs[k]] # NaN}

\* no column belongs to two groups
GroupsDisjoint ==
    \A i, j \in 1..Len(groups) :
        i # j => Range(GroupCols(groups[i])) \cap Range(GroupCols(groups[j])) = {}

\* C25: after the scale and impute stages of the default pipeline, a cell
\* whose raw value is a non-zero number holds its scaled value, not an
\* imputed one, unless its row was dropped from its group; and a row is
\* dropped from a group only if fewer than half of its cells in the group's
\* columns are non-zero numbers in the raw matrix.
C25_OnlyRawZerosAreMissing ==
    (pc = "Imputed" /\ GroupsDisjoint) =>
        \A r \in DOMAIN data : \A i \in 1..Len(groups) :
            LET cs == GroupCols(groups[i])
            IN  /\ \A k \in RawPresent(r, cs) :
                       data[r][cs[k]] # NaN => data[r][cs[k]] = Log2Cell(raw[r][cs[k]])
                /\ (Cardinality(RawPresent(r, cs)) * SampleThresholdDen
                        >= SampleThresholdNum * Len(cs)) =>
                       \A k \in 1..Len(cs) : data[r][cs[k]] # NaN

\* the block of a group in the matrix _impute_data was called on, imputed
ImputedBlock(g) ==
    KNN_Imputer_fit_transform(Block(raw, GroupCols(g)), Len(GroupCols(g)))

\* C26: when _impute_data has returned, with plot True or False, the
\* columns of every configured group hold the group's imputed values; the
\* imputation figure is drawn and its path recorded exactly when plot is True.
C26_ImputesWhateverPlot ==
    (pc = "Imputed" /\ GroupsDisjoint) =>
        /\ \A i \in 1..Len(groups) :
               ImputedBlock(groups[i]).ok =>
                   Block(data, GroupCols(groups[i])) = ImputedBlock(groups[i]).v
        /\ ("imputation_plot_path" \in attrs) <=> impute_plot
        /\ (ImputationPath(groups[Len(groups)]) \in DOMAIN files) <=> impute_plot

\* C27: _get_group_cols called with an empty list of tokens returns the
\* empty list: no column is selected, the feature-identifier column neither.
C27_EmptyTokenListResolvesToNothing ==
    (resolved.done /\ ~group_name.isStr /\ group_name.v = <<>>) => resolved.cols = <<>>

\* the transformed matrix the earlier call of run() persisted
EarlierMatrix == earlier.files[MatrixPath]

\* the sample columns as the first call of run() scaled them
FirstScaled == Log2Scaler_fit_transform(Block(raw, AllGroupCols))

====
